---- MODULE Spec2Model ----
(***************************************************************************)
(* Synchronisation and reconciliation subsystem of the doctor schedule     *)
(* manager: snapshot codec (src/utils/backup.ts), reconciliation           *)
(* (mergeBackupData), the restore handlers of the UI, and the Google Drive *)
(* service (src/utils/googleDriveService.ts): folder resolver, concurrent  *)
(* resolution and saves, listing, loading and deletion of backups.         *)
(***************************************************************************)
EXTENDS Integers, Sequences, FiniteSets, TLC

VARIABLES
    \* ---- mergeBackupData applied to drawn inputs ----
    current,        \* first argument of mergeBackupData (the local payload)
    backup,         \* second argument (BackupData['data'], the incoming payload)
    mode,           \* third argument: "replace" | "merge"
    merged,         \* result of the first call  (ReturnValue record)
    mergedAgain,    \* result of the second call, with `merged` as current
    mpc,            \* "start" | "once" | "twice"
    \* ---- snapshot codec round trip ----
    payload,        \* the six in-memory collections handed to createBackup
    wire,           \* JSON.stringify(createBackup(...)): the document written
    viaImport,      \* what importBackup resolves with for that document
    viaDrive,       \* what googleDriveService.loadBackup returns for it
    rpc,            \* set of steps taken: subset of {"wire", "import", "drive"}
    \* ---- the restore handlers of the UI ----
    appData,        \* App's six collections (useState), by key
    restoreMode,    \* BackupRestore's restoreMode: "replace" | "merge"
    message,        \* the message shown: [type, text]
    request,        \* the last restore request: [path, doc, transport, mode]
    before,         \* appData when the last restore request was made
    restores,       \* number of restore requests handled
    \* ---- the Drive folder resolver ----
    folders,        \* the backend's folders named APP_FOLDER_NAME, in listing order
    fixedFolderId,  \* GOOGLE_DRIVE_CONFIG.FIXED_FOLDER_ID ("" when not set)
    resolved,       \* what the last getOrCreateAppFolder call did
    seen,           \* what its first findAllAppFolders returned
    asked,          \* how the backend answered the requests of that call
    verified,       \* what the search after a creation attempt returned
    calls,          \* number of getOrCreateAppFolder calls made
    \* ---- several clients resolving the folder at the same time ----
    store,          \* the backend's folders named APP_FOLDER_NAME, with owner
    racer,          \* per client: [pc, created, result] of its first call
    later,          \* per client: the folder a call made after the race returned
    \* ---- several clients calling saveBackup on one resolved folder ----
    files,          \* the artifacts of the folder, in listing order
    written,        \* per artifact: the body of the last write request applied to it
    saver,          \* per client: [pc, fileId, seenVersion, body, saves, outcome]
    \* ---- one client calling the operations of googleDriveService ----
    accessToken,    \* this.accessToken ("" for null)
    configuredId,   \* GOOGLE_DRIVE_CONFIG.FIXED_FOLDER_ID of this client
    call,           \* the last operation called and how the backend answered
    outcome,        \* what it did: [status, error, cause, requests, result]
    \* ---- the local automatic backups kept in localStorage ----
    clock,          \* the last reading of the browser clock (milliseconds)
    autoBackups,    \* localStorage item AUTO_BACKUP_KEY: absent, or the history
    lastAutoBackup, \* localStorage item LAST_AUTO_BACKUP_KEY: absent, or a time
    recorded,       \* every snapshot written since the history was last cleared
    autoCall,       \* the last call: [n, op, at, storage, should, wrote, ran, since]
    \* ---- the local exports and their counter ----
    backupCount,    \* localStorage item LOCAL_BACKUP_KEY: absent, or a count
    hasFilePicker,  \* 'showSaveFilePicker' in window
    pending,        \* number of saveWithFilePicker calls not yet settled
    exported,       \* the files handed to the user, by the way they were saved
    exportCall,     \* the last call: [n, op, storage, stored, prompted, shouldContinue, route]
    \* ---- the auto-save hook of one client ----
    collections,    \* the six collections passed to the hook (props)
    autoSaveEnabled,\* the autoSaveEnabled prop
    signedIn,       \* googleDriveService.isSignedIn()
    isSaving,       \* the isSaving state of the latest render
    lastDataRef,    \* lastDataRef.current
    timer,          \* the pending debounce timer and the render it was armed in
    inFlight,       \* the saveBackup calls not yet settled, by the data they carry
    lastSettled,    \* how the last settled saveBackup call ended: [status, hash]
    saveCall,       \* the last performAutoSave call: [n, by, started]
    edits           \* number of changes of the props and of the sign-in state

mergeVars == <<current, backup, mode, merged, mergedAgain, mpc>>

codecVars == <<payload, wire, viaImport, viaDrive, rpc>>

restoreVars == <<appData, restoreMode, message, request, before, restores>>

resolverVars == <<folders, fixedFolderId, resolved, seen, asked, verified, calls>>

raceVars == <<store, racer, later>>

saveVars == <<files, written, saver>>

serviceVars == <<accessToken, configuredId, call, outcome>>

autoBackupVars == <<clock, autoBackups, lastAutoBackup, recorded, autoCall>>

exportVars == <<backupCount, hasFilePicker, pending, exported, exportCall>>

autoSaveVars == <<collections, autoSaveEnabled, signedIn, isSaving, lastDataRef, timer,
                  inFlight, lastSettled, saveCall, edits>>

localVars == <<autoBackupVars, exportVars, autoSaveVars>>

syncVars == <<raceVars, saveVars, serviceVars, localVars>>

vars == <<current, backup, mode, merged, mergedAgain, mpc,
          payload, wire, viaImport, viaDrive, rpc,
          appData, restoreMode, message, request, before, restores,
          folders, fixedFolderId, resolved, seen, asked, verified, calls,
          store, racer, later, files, written, saver,
          accessToken, configuredId, call, outcome,
          clock, autoBackups, lastAutoBackup, recorded, autoCall,
          backupCount, hasFilePicker, pending, exported, exportCall,
          collections, autoSaveEnabled, signedIn, isSaving, lastDataRef, timer,
          inFlight, lastSettled, saveCall, edits>>

(***************************************************************************)
(* JavaScript values held by a payload field.  A field is an array of      *)
(* records, or absent (undefined), or another falsy value (null, 0, "",    *)
(* false), or a truthy value that is not an array (an object, a string).   *)
(***************************************************************************)
Keys == {"schedules", "persons", "leaveRequests", "oneTimeWork", "onCalls", "nurseOnCalls"}

Arr(s) == [tag |-> "array", items |-> s]
Undefined == [tag |-> "undefined", items |-> <<>>]
Falsy == [tag |-> "falsy", items |-> <<>>]
Other == [tag |-> "other", items |-> <<>>]

IsArray(v) == v.tag = "array"
IsTruthy(v) == v.tag \in {"array", "other"}

\* `x || []`
OrEmpty(v) == IF IsTruthy(v) THEN v ELSE Arr(<<>>)

(***************************************************************************)
(* Records.  Only `id` is inspected by the reconciliation; `name` stands   *)
(* for the domain fields.  date/startDate/endDate are the date fields of   *)
(* the record types: absent, a Date (time value) or a string (wire form).  *)
(***************************************************************************)
NoDate == [tag |-> "undefined", v |-> <<>>]
\* a Date object with time value t (milliseconds)
DateObj(t) == [tag |-> "Date", v |-> <<t>>]
\* an ISO-8601 string "...:ss.mmmZ": whole seconds and the millisecond digits
DateStr(sec, ms) == [tag |-> "string", v |-> <<sec, ms>>]

Rec(i, n) == [id |-> i, name |-> n, date |-> NoDate, startDate |-> NoDate, endDate |-> NoDate]

\* ---- bounds ----
MaxLen == 2
MaxRestores == 2
MaxFolders == 2
MaxCalls == 1
NumClients == 2
MaxSaves == 2

Ids == {"a", "b"}
Names == {"x", "y"}
PlainRecords == {Rec(i, n) : i \in Ids, n \in Names}

SeqsUpTo(S, n) == UNION {[1..k -> S] : k \in 0..n}

(***************************************************************************)
(* mergeBackupData (backup.ts 202-243)                                     *)
(***************************************************************************)
RECURSIVE Filter(_, _)
\* backupArray.filter(item => !existingIds.has(item.id))
Filter(s, existingIds) ==
    IF s = <<>> THEN <<>>
    ELSE IF Head(s).id \in existingIds
         THEN Filter(Tail(s), existingIds)
         ELSE <<Head(s)>> \o Filter(Tail(s), existingIds)

mergeArraysNoFilter(currentArray, backupArray) == currentArray \o backupArray

mergeArraysBackupFirst(currentArray, backupArray) ==
    LET existingIds == {backupArray[i].id : i \in 1..Len(backupArray)}
    IN  backupArray \o Filter(currentArray, existingIds)

mergeArraysOwnIds(currentArray, backupArray) ==
    LET existingIds == {backupArray[i].id : i \in 1..Len(backupArray)}
        newItems == Filter(backupArray, existingIds)
    IN  currentArray \o newItems

mergeArrays(currentArray, backupArray) ==
    LET existingIds == {currentArray[i].id : i \in 1..Len(currentArray)}
        newItems == Filter(backupArray, existingIds)
    IN  currentArray \o newItems

\* the array handed to mergeArrays as backupArray for key k
BackupArg(bk, k) == IF k = "nurseOnCalls" THEN OrEmpty(bk[k]) ELSE bk[k]

\* mergeArrays calls .map on currentArray and .filter on backupArray:
\* a TypeError when either is not an array
MergeThrows(cur, bk, md) ==
    /\ md = "merge"
    /\ \E k \in Keys : ~IsArray(cur[k]) \/ ~IsArray(BackupArg(bk, k))

replaceKeepsNurse(bk) == bk

replaceAllOrEmpty(bk) == [k \in Keys |-> OrEmpty(bk[k])]

replaceResult(bk) ==
    [k \in Keys |-> IF k = "nurseOnCalls" THEN OrEmpty(bk[k]) ELSE bk[k]]

mergeBackupData(cur, bk, md) ==
    IF md = "replace"
    THEN [threw |-> FALSE, data |-> replaceResult(bk)]
    ELSE IF MergeThrows(cur, bk, md)
         THEN [threw |-> TRUE, data |-> cur]
         ELSE [threw |-> FALSE,
               data |-> [k \in Keys |->
                           Arr(mergeArrays(cur[k].items, BackupArg(bk, k).items))]]

NoResult == [threw |-> FALSE, data |-> [k \in Keys |-> Undefined]]

(***************************************************************************)
(* Snapshot codec (backup.ts 17-37, 152-200; googleDriveService.ts 877-908)*)
(*                                                                         *)
(* A document is what a file holds: text that does not parse ("garbage"),  *)
(* the JSON value null ("null"), or an object with optional version,       *)
(* timestamp and data members.                                             *)
(***************************************************************************)
EmptyPayload == [k \in Keys |-> Arr(<<>>)]

GarbageDoc == [kind |-> "garbage", version |-> "undefined", timestamp |-> "undefined",
               hasData |-> FALSE, data |-> [k \in Keys |-> Undefined]]
NullDoc == [kind |-> "null", version |-> "undefined", timestamp |-> "undefined",
            hasData |-> FALSE, data |-> [k \in Keys |-> Undefined]]

createBackup(p) ==
    [kind |-> "object", version |-> "1.0.0", timestamp |-> "t",
     hasData |-> TRUE, data |-> p]

toISOStringNoMillis(t) == DateStr(t \div 1000, 0)

\* Date.prototype.toISOString: "YYYY-MM-DDTHH:mm:ss.sssZ"
toISOString(t) == DateStr(t \div 1000, t % 1000)

\* JSON.stringify of a date field: a Date is written through toJSON, a string
\* stays, an undefined member is left out
StringifyDate(d) == IF d.tag = "Date" THEN toISOString(d.v[1]) ELSE d

StringifyRec(r) ==
    [r EXCEPT !.date = StringifyDate(@),
              !.startDate = StringifyDate(@),
              !.endDate = StringifyDate(@)]

StringifyValue(v) ==
    IF IsArray(v)
    THEN Arr([i \in 1..Len(v.items) |-> StringifyRec(v.items[i])])
    ELSE v

JSONstringify(snapshot) ==
    [snapshot EXCEPT !.data = [k \in Keys |-> StringifyValue(snapshot.data[k])]]

validateBackupData(doc) ==
    /\ doc.kind = "object"
    /\ doc.version # "undefined" /\ doc.timestamp # "undefined" /\ doc.hasData
    /\ IsArray(doc.data["schedules"])
    /\ IsArray(doc.data["persons"])
    /\ IsArray(doc.data["leaveRequests"])
    /\ IsArray(doc.data["oneTimeWork"])
    /\ IsArray(doc.data["onCalls"])
    /\ IsArray(OrEmpty(doc.data["nurseOnCalls"]))

supportedVersions == {"1.0.0"}

validateBackupVersion(doc) == doc.version \in supportedVersions

\* importBackup: the FileReader result is parsed and validated
importBackup(doc, readOk) ==
    IF ~readOk \/ doc.kind = "garbage"
    THEN [status |-> "read-error", doc |-> GarbageDoc]
    ELSE IF ~validateBackupData(doc)
         THEN [status |-> "invalid", doc |-> GarbageDoc]
         ELSE [status |-> "resolved", doc |-> doc]

NewDateSecondsOnly(d) == DateObj(d.v[1] * 1000)

\* new Date(isoString)
NewDate(d) == DateObj(d.v[1] * 1000 + d.v[2])

\* if (item.date) item.date = new Date(item.date)
ConvertDate(d) == IF d.tag = "undefined" THEN d ELSE NewDate(d)

ConvertRec(r) ==
    [r EXCEPT !.date = ConvertDate(@),
              !.startDate = ConvertDate(@),
              !.endDate = ConvertDate(@)]

DateKeys == {"schedules", "leaveRequests", "oneTimeWork", "onCalls", "nurseOnCalls"}

\* loadBackup throws when the fetch fails or answers not-ok, when the body does
\* not parse, when the body is null (null.data) and when a truthy member of
\* data listed in DateKeys has no map method
LoadThrows(doc, fetch) ==
    \/ fetch # "ok"
    \/ doc.kind \in {"garbage", "null"}
    \/ doc.hasData /\ \E k \in DateKeys : doc.data[k].tag = "other"

loadBackup(doc, fetch) ==
    IF LoadThrows(doc, fetch)
    THEN [status |-> "threw", doc |-> GarbageDoc]
    ELSE [status |-> "returned",
          doc |-> [doc EXCEPT !.data =
                     [k \in Keys |->
                        IF k \in DateKeys /\ IsArray(doc.data[k])
                        THEN Arr([i \in 1..Len(doc.data[k].items) |->
                                     ConvertRec(doc.data[k].items[i])])
                        ELSE doc.data[k]]]]

NoDecode == [status |-> "none", doc |-> GarbageDoc]

(***************************************************************************)
(* Folder resolver (googleDriveService.ts 300-702)                         *)
(*                                                                         *)
(* A folder is [id, driveId, shared, multiPerm, ownedByMe, modifiedTime]:  *)
(* driveId is "" in My Drive, multiPerm says permissions.length > 1.       *)
(***************************************************************************)
TargetDrive == "misora"
OtherDrive == "other-drive"

Folder(i, d, sh, mp, own, t) ==
    [id |-> i, driveId |-> d, shared |-> sh, multiPerm |-> mp,
     ownedByMe |-> own, modifiedTime |-> t]

\* steps is the log of the requests the call made, in order
NoResolution ==
    [status |-> "none", id |-> "", created |-> "", warned |-> FALSE, steps |-> <<>>]

RECURSIVE SelectFolders(_, _)
\* Array.prototype.filter over a folder list; keep is the set of ids kept
SelectFolders(s, keep) ==
    IF s = <<>> THEN <<>>
    ELSE IF Head(s).id \in keep
         THEN <<Head(s)>> \o SelectFolders(Tail(s), keep)
         ELSE SelectFolders(Tail(s), keep)

RECURSIVE InsertByModified(_, _)
InsertByModified(x, s) ==
    IF s = <<>> THEN <<x>>
    ELSE IF Head(s).modifiedTime >= x.modifiedTime
         THEN <<Head(s)>> \o InsertByModified(x, Tail(s))
         ELSE <<x>> \o s

RECURSIVE SortByModifiedDesc(_)
\* s.sort((a, b) => new Date(b.modifiedTime) - new Date(a.modifiedTime)):
\* newest first, stable
SortByModifiedDesc(s) ==
    IF s = <<>> THEN <<>>
    ELSE InsertByModified(s[Len(s)], SortByModifiedDesc(SubSeq(s, 1, Len(s) - 1)))

InSharedDrive(f) == f.driveId # ""

\* the ids of the folders of s that live in drive d ("" is My Drive)
IdsInDrive(s, d) == {s[i].id : i \in {j \in 1..Len(s) : s[j].driveId = d}}

IdsInSharedDrives(s) == {s[i].id : i \in {j \in 1..Len(s) : InSharedDrive(s[j])}}

\* the ids of the records of a list
IdsOf(s) == {s[i].id : i \in 1..Len(s)}

isSharedFlagsOnly(f) == f.shared \/ f.multiPerm

isNotOwnedByMe(f) == ~f.ownedByMe

\* the filter of step 3: shared flag, several permissions, or not owned by me
isSharedFolder(f) == f.shared \/ f.multiPerm \/ ~f.ownedByMe

pickLatestOfAll(allFolders) == SortByModifiedDesc(allFolders)[1].id

\* steps 2-4 of getOrCreateAppFolder on a non-empty search result
pickFolder(allFolders) ==
    LET sharedDriveFolders == SelectFolders(allFolders, IdsInSharedDrives(allFolders))
        sharedFolders ==
            SelectFolders(allFolders,
                {allFolders[i].id : i \in {j \in 1..Len(allFolders) : isSharedFolder(allFolders[j])}})
    IN  IF sharedDriveFolders # <<>>
        THEN SortByModifiedDesc(sharedDriveFolders)[1].id
        ELSE IF sharedFolders # <<>>
             THEN SortByModifiedDesc(sharedFolders)[1].id
             ELSE SortByModifiedDesc(allFolders)[1].id

\* findAllAppFolders: the My Drive search result followed by the shared drive
\* results not seen yet; [] when a search request fails
findAllAppFolders(backend, searchOk) ==
    IF ~searchOk THEN <<>>
    ELSE SelectFolders(backend, IdsInDrive(backend, ""))
         \o SelectFolders(backend, IdsInSharedDrives(backend))

findTargetSharedDriveFirst(drives) ==
    IF drives.ok /\ drives.names # {} THEN TargetDrive ELSE ""

\* findTargetSharedDrive: the id of the drive with the target name in the
\* answer to the drives listing, "" (null) when the listing fails, is empty
\* or does not hold it
findTargetSharedDrive(drives) ==
    IF drives.ok /\ TargetDrive \in drives.names THEN TargetDrive ELSE ""

LatestTime(s) ==
    IF s = <<>> THEN 0
    ELSE CHOOSE t \in {s[i].modifiedTime : i \in 1..Len(s)} :
            \A i \in 1..Len(s) : s[i].modifiedTime <= t

NewId(backend) == "f" \o ToString(Len(backend) + 1)

pickAfterCreationOwn(verifyFolders, sharedDriveId, createdId) == createdId

\* createAppFolderSafely 420-441: the folder returned after a successful
\* creation in the shared drive, given the result of the second search
pickAfterCreation(verifyFolders, sharedDriveId, createdId) ==
    LET inTarget == SortByModifiedDesc(
                        SelectFolders(verifyFolders, IdsInDrive(verifyFolders, sharedDriveId)))
    IN  IF Len(verifyFolders) > 1 /\ inTarget # <<>> /\ inTarget[1].id # createdId
        THEN inTarget[1].id
        ELSE createdId

createAppFolderSafelyNoRetry(backend, target, createOk, rival, researchOk) ==
    LET tc == LatestTime(backend) + 1
        theirs == Folder("rival" \o ToString(Len(backend) + 1), TargetDrive,
                         FALSE, FALSE, FALSE, IF rival = "later" THEN tc + 1 ELSE tc)
        mine == Folder(NewId(backend), target, FALSE, FALSE, TRUE,
                       IF rival = "earlier" THEN tc + 1 ELSE tc)
        after == backend
                 \o (IF rival = "earlier" THEN <<theirs>> ELSE <<>>)
                 \o (IF createOk THEN <<mine>> ELSE <<>>)
                 \o (IF rival \in {"same", "later"} THEN <<theirs>> ELSE <<>>)
        again == findAllAppFolders(after, researchOk)
    IN  IF createOk
        THEN [backend |-> after,
              res |-> [status |-> "returned",
                       id |-> IF target # ""
                              THEN pickAfterCreation(again, target, mine.id)
                              ELSE mine.id,
                       created |-> mine.id,
                       warned |-> target # "" /\ Len(again) > 1,
                       steps |-> IF target # "" THEN <<"drives", "create", "search">>
                                 ELSE <<"drives", "create">>]]
        ELSE [backend |-> after,
              res |-> [status |-> "threw", id |-> "", created |-> "", warned |-> FALSE,
                       steps |-> IF target # "" THEN <<"drives", "create", "search">>
                                 ELSE <<"drives", "create">>]]

\* createAppFolderSafely on a backend where the search found nothing.
\* target: what findTargetSharedDrive returned ("" for null); rival: a folder
\* another client creates in the target drive around our own creation
\* ("earlier": before ours, "same": same modifiedTime, "later": after ours).
createAppFolderSafely(backend, target, createOk, rival, researchOk) ==
    LET tc == LatestTime(backend) + 1
        theirs == Folder("rival" \o ToString(Len(backend) + 1), TargetDrive,
                         FALSE, FALSE, FALSE, IF rival = "later" THEN tc + 1 ELSE tc)
        mine == Folder(NewId(backend), target, FALSE, FALSE, TRUE,
                       IF rival = "earlier" THEN tc + 1 ELSE tc)
        after == backend
                 \o (IF rival = "earlier" THEN <<theirs>> ELSE <<>>)
                 \o (IF createOk THEN <<mine>> ELSE <<>>)
                 \o (IF rival \in {"same", "later"} THEN <<theirs>> ELSE <<>>)
        again == findAllAppFolders(after, researchOk)
        inTarget == SortByModifiedDesc(SelectFolders(again, IdsInDrive(again, target)))
    IN  IF target # ""
        THEN IF createOk
             THEN [backend |-> after,
                   res |-> [status |-> "returned",
                            id |-> pickAfterCreation(again, target, mine.id),
                            created |-> mine.id,
                            warned |-> Len(again) > 1,
                            steps |-> <<"drives", "create", "search">>]]
             ELSE [backend |-> after,
                   res |-> IF again # <<>> /\ inTarget # <<>>
                           THEN [status |-> "returned", id |-> inTarget[1].id,
                                 created |-> "", warned |-> FALSE,
                                 steps |-> <<"drives", "create", "search">>]
                           ELSE [status |-> "threw", id |-> "",
                                 created |-> "", warned |-> FALSE,
                                 steps |-> <<"drives", "create", "search">>]]
        ELSE IF createOk
             THEN [backend |-> after,
                   res |-> [status |-> "returned", id |-> mine.id,
                            created |-> mine.id, warned |-> FALSE,
                            steps |-> <<"drives", "create">>]]
             ELSE [backend |-> after,
                   res |-> [status |-> "threw", id |-> "",
                            created |-> "", warned |-> FALSE,
                            steps |-> <<"drives", "create">>]]

getOrCreateAppFolderProbeFatal(backend, fixed, probe, searchOk, target, createOk, rival, researchOk) ==
    [backend |-> backend,
     res |-> [status |-> IF probe = "ok" THEN "returned" ELSE "threw",
              id |-> IF probe = "ok" THEN fixed ELSE "", created |-> "",
              warned |-> FALSE, steps |-> <<"probe">>]]

getOrCreateAppFolderSearchFatal(backend, fixed, probe, searchOk, target, createOk, rival, researchOk) ==
    [backend |-> backend,
     res |-> [status |-> IF probe = "ok" \/ searchOk THEN "returned" ELSE "threw",
              id |-> fixed, created |-> "", warned |-> FALSE,
              steps |-> IF probe = "ok" THEN <<"probe">> ELSE <<"probe", "search">>]]

getOrCreateAppFolderUnlessShared(backend, fixed, probe, searchOk, target, createOk, rival, researchOk) ==
    LET allFolders == findAllAppFolders(backend, searchOk)
        probed == IF fixed # "" THEN <<"probe">> ELSE <<>>
        made == createAppFolderSafely(backend, target, createOk, rival, researchOk)
    IN  IF fixed # "" /\ probe = "ok"
        THEN [backend |-> backend,
              res |-> [status |-> "returned", id |-> fixed, created |-> "",
                       warned |-> FALSE, steps |-> probed]]
        ELSE IF IdsInSharedDrives(allFolders) # {}
             THEN [backend |-> backend,
                   res |-> [status |-> "returned", id |-> pickFolder(allFolders),
                            created |-> "", warned |-> FALSE,
                            steps |-> probed \o <<"search">>]]
             ELSE [backend |-> made.backend,
                   res |-> [made.res EXCEPT !.steps = probed \o <<"search">> \o @]]

\* getOrCreateAppFolder.  probe: the answer to the fixed folder probe
\* ("none" when no fixed id is configured); searchOk: whether the search
\* requests of findAllAppFolders succeed.
getOrCreateAppFolder(backend, fixed, probe, searchOk, target, createOk, rival, researchOk) ==
    LET allFolders == findAllAppFolders(backend, searchOk)
        probed == IF fixed # "" THEN <<"probe">> ELSE <<>>
        made == createAppFolderSafely(backend, target, createOk, rival, researchOk)
    IN  IF fixed # "" /\ probe = "ok"
        THEN [backend |-> backend,
              res |-> [status |-> "returned", id |-> fixed, created |-> "",
                       warned |-> FALSE, steps |-> probed]]
        ELSE IF allFolders # <<>>
             THEN [backend |-> backend,
                   res |-> [status |-> "returned", id |-> pickFolder(allFolders),
                            created |-> "", warned |-> FALSE,
                            steps |-> probed \o <<"search">>]]
             ELSE [backend |-> made.backend,
                   res |-> [made.res EXCEPT !.steps = probed \o <<"search">> \o @]]

(***************************************************************************)
(* Requests of googleDriveService (googleDriveService.ts 273-297, 706-932) *)
(*                                                                         *)
(* An answer of the backend is [status, body, mentions]: status 0 stands   *)
(* for a fetch that throws, body says whether the response body parses as  *)
(* JSON, mentions is the set of status codes whose digits occur in the     *)
(* response text.                                                          *)
(***************************************************************************)
Answer(st, bd, mn) == [status |-> st, body |-> bd, mentions |-> mn]

OkAnswer == Answer(200, "json", {})

ResponseOk(answer) == answer.status \in 200..299

\* apiCall: throws the sign-in error before any request when there is no
\* token; throws `API... ${status} ${errorText}` on a not-ok response; else
\* returns response.json(), which rejects when the body is not JSON
apiCall(token, answer) ==
    IF token = ""
    THEN [threw |-> TRUE, error |-> "auth", status |-> 0, mentions |-> {}, requests |-> 0]
    ELSE IF answer.status = 0
    THEN [threw |-> TRUE, error |-> "network", status |-> 0, mentions |-> {}, requests |-> 1]
    ELSE IF ~ResponseOk(answer)
    THEN [threw |-> TRUE, error |-> "api", status |-> answer.status,
          mentions |-> answer.mentions, requests |-> 1]
    ELSE IF answer.body # "json"
    THEN [threw |-> TRUE, error |-> "syntax", status |-> answer.status,
          mentions |-> {}, requests |-> 1]
    ELSE [threw |-> FALSE, error |-> "none", status |-> answer.status,
          mentions |-> {}, requests |-> 1]

\* error.message.includes(code) on the message of an error thrown by apiCall
MessageIncludes(r, code) ==
    r.error = "api" /\ (r.status = code \/ code \in r.mentions)

Done(st, er, ca, rq, rs) ==
    [status |-> st, error |-> er, cause |-> ca, requests |-> rq, result |-> rs]

NoOutcome == Done("none", "none", "none", 0, <<>>)

\* deleteBackup 911-932
deleteBackup(token, answer) ==
    LET r == apiCall(token, answer)
    IN  IF ~r.threw THEN Done("returned", "none", "none", r.requests, <<>>)
        ELSE IF MessageIncludes(r, 404)
        THEN Done("threw", "not-found", r.error, r.requests, <<>>)
        ELSE IF MessageIncludes(r, 403)
        THEN Done("threw", "permission-denied", r.error, r.requests, <<>>)
        ELSE Done("threw", "delete-failed", r.error, r.requests, <<>>)

\* the requests of a getOrCreateAppFolder call that reach the network: the
\* probe is a fetch of its own, every other step goes through apiCall
RequestsOf(token, steps) ==
    Cardinality({i \in 1..Len(steps) : steps[i] = "probe" \/ token # ""})

\* getOrCreateAppFolder called with the token held: without a token every
\* apiCall of the search, the drives listing and the creation throws
ResolveFolder(token, backend, fixed, probe, searchOk, drives, createOk) ==
    LET out == getOrCreateAppFolder(backend, fixed, probe, token # "" /\ searchOk,
                   IF token # "" THEN findTargetSharedDrive(drives) ELSE "",
                   token # "" /\ createOk, "none", token # "")
    IN  IF out.res.status = "threw"
        THEN Done("threw", IF token = "" THEN "auth" ELSE "api",
                  IF token = "" THEN "auth" ELSE "api",
                  RequestsOf(token, out.res.steps), <<>>)
        ELSE Done("returned", "none", "none", RequestsOf(token, out.res.steps),
                  <<out.res.id>>)

filterAccessibleFilesAll(fs, probes) == fs

RECURSIVE filterAccessibleFiles(_, _)
\* filterAccessibleFiles 812-874: one metadata fetch per file; the file is
\* kept when the response is ok, dropped on any other status and on a throw
filterAccessibleFiles(fs, probes) ==
    IF fs = <<>> THEN <<>>
    ELSE IF probes[Head(fs).id] = "ok"
         THEN <<Head(fs)>> \o filterAccessibleFiles(Tail(fs), probes)
         ELSE filterAccessibleFiles(Tail(fs), probes)

\* listBackupFiles 769-809.  folder: what getOrCreateAppFolder did; each
\* listing is [answer, files]
listBackupFiles(token, folder, sharedList, backupList, probes) ==
    LET a == apiCall(token, sharedList.answer)
        b == apiCall(token, backupList.answer)
        allFiles == sharedList.files \o backupList.files
    IN  IF folder.status = "threw" THEN folder
        ELSE IF a.threw
        THEN Done("threw", a.error, a.error, folder.requests + a.requests, <<>>)
        ELSE IF b.threw
        THEN Done("threw", b.error, b.error,
                  folder.requests + a.requests + b.requests, <<>>)
        ELSE Done("returned", "none", "none",
                  folder.requests + a.requests + b.requests + Len(allFiles),
                  SortByModifiedDesc(filterAccessibleFiles(allFiles, probes)))

\* saveBackup 706-766 as one call; existing: the listing of the shared file
saveBackup(token, folder, existing, writeOk) ==
    LET a == apiCall(token, existing.answer)
    IN  IF folder.status = "threw" THEN folder
        ELSE IF a.threw
        THEN Done("threw", a.error, a.error, folder.requests + a.requests, <<>>)
        ELSE IF ~writeOk
        THEN Done("threw", IF existing.files # <<>> THEN "update-failed" ELSE "save-failed",
                  "fetch", folder.requests + a.requests + 1, <<>>)
        ELSE Done("returned", "none", "none", folder.requests + a.requests + 1, <<>>)

(***************************************************************************)
(* Specification of mergeBackupData on drawn inputs                        *)
(***************************************************************************)
PlainArrays == {Arr(s) : s \in SeqsUpTo(PlainRecords, MaxLen)}

\* the variables of the other specifications, at rest
MergeIdle ==
    /\ current = EmptyPayload /\ backup = EmptyPayload /\ mode = "replace"
    /\ merged = NoResult /\ mergedAgain = NoResult /\ mpc = "idle"

CodecIdle ==
    /\ payload = EmptyPayload /\ wire = GarbageDoc
    /\ viaImport = NoDecode /\ viaDrive = NoDecode /\ rpc = {}

NoMessage == [type |-> "none", text |-> "none"]
NoRequest == [path |-> "none", doc |-> GarbageDoc, transport |-> "ok", mode |-> "replace"]

RestoreIdle ==
    /\ appData = EmptyPayload /\ restoreMode = "replace" /\ message = NoMessage
    /\ request = NoRequest /\ before = EmptyPayload /\ restores = 0

NoDrives == [ok |-> TRUE, names |-> {}]

NoAnswers ==
    [probe |-> "none", searchOk |-> TRUE, drives |-> NoDrives, createOk |-> TRUE,
     rival |-> "none", researchOk |-> TRUE]

ResolverIdle ==
    /\ folders = <<>> /\ fixedFolderId = "" /\ resolved = NoResolution
    /\ seen = <<>> /\ asked = NoAnswers /\ verified = <<>> /\ calls = 0

Clients == 1..NumClients

NotStarted == [pc |-> "idle", created |-> "", result |-> ""]

RaceIdle ==
    /\ store = <<>>
    /\ racer = [c \in Clients |-> NotStarted]
    /\ later = [c \in Clients |-> ""]

\* seenVersion: the version the file had when the search listed it
NotSaving ==
    [pc |-> "idle", fileId |-> "", seenVersion |-> 0, body |-> EmptyPayload,
     saves |-> 0, outcome |-> "none"]

SaveIdle ==
    /\ files = <<>> /\ written = <<>>
    /\ saver = [c \in Clients |-> NotSaving]

NoCall == [op |-> "none"]

ServiceIdle ==
    /\ accessToken = "" /\ configuredId = "" /\ call = NoCall /\ outcome = NoOutcome

\* localStorage.getItem of a key that was never set
NullItem == [tag |-> "null", v |-> <<>>]

NoAutoCall ==
    [n |-> 0, op |-> "none", at |-> 0, storage |-> "ok", should |-> FALSE, wrote |-> FALSE,
     ran |-> FALSE, since |-> 0]

AutoBackupIdle ==
    /\ clock = 0 /\ autoBackups = NullItem /\ lastAutoBackup = NullItem
    /\ recorded = <<>> /\ autoCall = NoAutoCall

NoExport ==
    [n |-> 0, op |-> "none", storage |-> "ok", stored |-> 0, prompted |-> FALSE,
     shouldContinue |-> FALSE, route |-> "none"]

ExportIdle ==
    /\ backupCount = NullItem /\ hasFilePicker = FALSE /\ pending = 0
    /\ exported = <<>> /\ exportCall = NoExport

\* getCurrentDataHash: JSON.stringify of the six collections
getCurrentDataHash(d) == [tag |-> "string", v |-> <<[k \in Keys |-> StringifyValue(d[k])]>>]

\* useRef<string>('')
EmptyString == [tag |-> "string", v |-> <<>>]

\* what a performAutoSave reads from the render that created it
Closure(d, enabled, saving) == [data |-> d, autoSaveEnabled |-> enabled, isSaving |-> saving]

NoTimer == [armed |-> FALSE, closure |-> Closure(EmptyPayload, FALSE, FALSE)]

Timer(c) == [armed |-> TRUE, closure |-> c]

NoSaveCall == [n |-> 0, by |-> "none", started |-> FALSE]

NoSettled == [status |-> "none", hash |-> EmptyString]

AutoSaveIdle ==
    /\ collections = EmptyPayload /\ autoSaveEnabled = FALSE /\ signedIn = FALSE
    /\ isSaving = FALSE /\ lastDataRef = EmptyString /\ timer = NoTimer
    /\ inFlight = <<>> /\ lastSettled = NoSettled /\ saveCall = NoSaveCall /\ edits = 0

LocalIdle == AutoBackupIdle /\ ExportIdle /\ AutoSaveIdle

SyncIdle == RaceIdle /\ SaveIdle /\ ServiceIdle /\ LocalIdle

FillCurrent == Arr(<<Rec("a", "x")>>)
FillBackup == Arr(<<Rec("b", "x"), Rec("a", "y"), Rec("c", "x")>>)

MergeInit ==
    /\ \E focus \in Keys, fill \in BOOLEAN :
         /\ \E c \in PlainArrays :
              current = [k \in Keys |-> IF k = focus THEN c
                                        ELSE IF fill THEN FillCurrent ELSE Arr(<<>>)]
         /\ \E b \in PlainArrays \cup {Undefined, Falsy, Other} :
              backup = [k \in Keys |-> IF k = focus THEN b
                                       ELSE IF fill THEN FillBackup ELSE Arr(<<>>)]
    /\ mode \in {"replace", "merge"}
    /\ merged = NoResult
    /\ mergedAgain = NoResult
    /\ mpc = "start"
    /\ CodecIdle /\ RestoreIdle /\ ResolverIdle /\ SyncIdle

CallMerge ==
    /\ mpc = "start"
    /\ merged' = mergeBackupData(current, backup, mode)
    /\ mpc' = "once"
    /\ UNCHANGED <<current, backup, mode, mergedAgain>>
    /\ UNCHANGED <<codecVars, restoreVars, resolverVars, syncVars>>

CallMergeAgain ==
    /\ mpc = "once"
    /\ ~merged.threw
    /\ mergedAgain' = mergeBackupData(merged.data, backup, mode)
    /\ mpc' = "twice"
    /\ UNCHANGED <<current, backup, mode, merged>>
    /\ UNCHANGED <<codecVars, restoreVars, resolverVars, syncVars>>

MergeNext == CallMerge \/ CallMergeAgain

SpecMerge == MergeInit /\ [][MergeNext]_vars

(***************************************************************************)
(* Specification of the codec round trip: createBackup, JSON.stringify,    *)
(* then importBackup and loadBackup on the written document                *)
(***************************************************************************)
Times == {0, 1, 999, 1000, 2001}

\* the records of collection k: schedules carry startDate and endDate,
\* persons carry no date, the other four carry date
RecordsOf(k) ==
    IF k = "persons" THEN {Rec(i, "x") : i \in Ids}
    ELSE IF k = "schedules"
         THEN {[Rec(i, "x") EXCEPT !.startDate = DateObj(t1), !.endDate = DateObj(t2)] :
                   i \in Ids, t1 \in Times, t2 \in Times}
         ELSE {[Rec(i, "x") EXCEPT !.date = DateObj(t)] : i \in Ids, t \in Times}

FillOf(k) ==
    IF k = "persons" THEN Arr(<<Rec("a", "y")>>)
    ELSE IF k = "schedules"
         THEN Arr(<<[Rec("a", "y") EXCEPT !.startDate = DateObj(1999), !.endDate = DateObj(3000)]>>)
         ELSE Arr(<<[Rec("a", "y") EXCEPT !.date = DateObj(1999)]>>)

RoundTripInit ==
    /\ \E focus \in Keys, fill \in BOOLEAN :
         \E s \in SeqsUpTo(RecordsOf(focus), MaxLen) :
            payload = [k \in Keys |-> IF k = focus THEN Arr(s)
                                      ELSE IF fill THEN FillOf(k) ELSE Arr(<<>>)]
    /\ wire = GarbageDoc
    /\ viaImport = NoDecode
    /\ viaDrive = NoDecode
    /\ rpc = {}
    /\ MergeIdle /\ RestoreIdle /\ ResolverIdle /\ SyncIdle

\* createBackup(...) and JSON.stringify(backupData, null, 2), as exportBackup
\* and saveBackup write it
Serialize ==
    /\ rpc = {}
    /\ wire' = JSONstringify(createBackup(payload))
    /\ rpc' = {"wire"}
    /\ UNCHANGED <<payload, viaImport, viaDrive>>
    /\ UNCHANGED <<mergeVars, restoreVars, resolverVars, syncVars>>

DecodeImport ==
    /\ "wire" \in rpc /\ "import" \notin rpc
    /\ viaImport' = importBackup(wire, TRUE)
    /\ rpc' = rpc \cup {"import"}
    /\ UNCHANGED <<payload, wire, viaDrive>>
    /\ UNCHANGED <<mergeVars, restoreVars, resolverVars, syncVars>>

DecodeDrive ==
    /\ "wire" \in rpc /\ "drive" \notin rpc
    /\ viaDrive' = loadBackup(wire, "ok")
    /\ rpc' = rpc \cup {"drive"}
    /\ UNCHANGED <<payload, wire, viaImport>>
    /\ UNCHANGED <<mergeVars, restoreVars, resolverVars, syncVars>>

RoundTripNext == Serialize \/ DecodeImport \/ DecodeDrive

SpecRoundTrip == RoundTripInit /\ [][RoundTripNext]_vars

(***************************************************************************)
(* Specification of the restore handlers: handleImportBackup               *)
(* (BackupRestore.tsx 51-85), handleLoadFromGoogleDrive                    *)
(* (GoogleDriveSync.tsx 187-210) and App's handleRestore (App.tsx 311-326) *)
(***************************************************************************)
Msg(ty, tx) == [type |-> ty, text |-> tx]

\* the documents a restore may be handed: a well-formed snapshot, or one with
\* a version, timestamp, data or payload member that is missing or malformed
DocBase == [k \in Keys |-> Arr(<<Rec("b", "x"), Rec("a", "y")>>)]

DocPayloads ==
    {EmptyPayload, DocBase}
    \cup {[DocBase EXCEPT ![k] = v] : k \in Keys, v \in {Undefined, Falsy, Other}}

Docs ==
    {GarbageDoc, NullDoc}
    \cup {[createBackup(p) EXCEPT !.version = ver] :
              p \in DocPayloads, ver \in {"undefined", "1.0.0", "2.0.0"}}
    \cup {[createBackup(DocBase) EXCEPT !.version = ver, !.hasData = FALSE,
                                        !.data = [k \in Keys |-> Undefined]] :
              ver \in {"undefined", "1.0.0", "2.0.0"}}
    \cup {[createBackup(DocBase) EXCEPT !.timestamp = "undefined"]}

RestoreInit ==
    /\ appData \in {EmptyPayload, [k \in Keys |-> Arr(<<Rec("a", "x")>>)]}
    /\ restoreMode = "replace"
    /\ message = NoMessage
    /\ request = NoRequest
    /\ before = appData
    /\ restores = 0
    /\ MergeIdle /\ CodecIdle /\ ResolverIdle /\ SyncIdle

\* the radio buttons of BackupRestore
SetRestoreMode(m) ==
    /\ restoreMode # m
    /\ restoreMode' = m
    /\ UNCHANGED <<appData, message, request, before, restores>>
    /\ UNCHANGED <<mergeVars, codecVars, resolverVars, syncVars>>

\* handleRestore: the six setters, each with the member it is given
handleRestore(data) == [k \in Keys |-> data[k]]

\* handleImportBackup(file): what it leaves in appData and message
ImportOutcome(doc, readOk) ==
    LET r == importBackup(doc, readOk)
        m == mergeBackupData(appData, r.doc.data, restoreMode)
    IN  IF r.status = "read-error" THEN [data |-> appData, msg |-> Msg("error", "read")]
        ELSE IF r.status = "invalid" THEN [data |-> appData, msg |-> Msg("error", "invalid")]
        ELSE IF ~validateBackupVersion(r.doc)
             THEN [data |-> appData, msg |-> Msg("error", "version")]
        ELSE IF m.threw THEN [data |-> appData, msg |-> Msg("error", "exception")]
        ELSE [data |-> handleRestore(m.data), msg |-> Msg("success", "restored-import")]

HandleImportBackup(doc, readOk) ==
    /\ restores < MaxRestores
    /\ LET out == ImportOutcome(doc, readOk)
       IN  /\ appData' = out.data
           /\ message' = out.msg
    /\ request' = [path |-> "import", doc |-> doc,
                   transport |-> IF readOk THEN "ok" ELSE "read-error",
                   mode |-> restoreMode]
    /\ before' = appData
    /\ restores' = restores + 1
    /\ UNCHANGED restoreMode
    /\ UNCHANGED <<mergeVars, codecVars, resolverVars, syncVars>>

\* handleLoadFromGoogleDrive(fileId): what it leaves in appData and message
DriveOutcome(doc, fetch) ==
    LET r == loadBackup(doc, fetch)
    IN  IF r.status = "threw"
        THEN [data |-> appData,
              msg |-> Msg("error", IF fetch = "http-error" THEN "load-failed" ELSE "exception")]
        ELSE IF ~r.doc.hasData
             THEN [data |-> appData, msg |-> Msg("error", "exception")]
             ELSE [data |-> handleRestore(
                              [k \in Keys |-> IF k = "nurseOnCalls"
                                              THEN OrEmpty(r.doc.data[k])
                                              ELSE r.doc.data[k]]),
                   msg |-> Msg("success", "restored-drive")]

HandleLoadFromGoogleDrive(doc, fetch) ==
    /\ restores < MaxRestores
    /\ LET out == DriveOutcome(doc, fetch)
       IN  /\ appData' = out.data
           /\ message' = out.msg
    /\ request' = [path |-> "drive", doc |-> doc, transport |-> fetch, mode |-> "replace"]
    /\ before' = appData
    /\ restores' = restores + 1
    /\ UNCHANGED restoreMode
    /\ UNCHANGED <<mergeVars, codecVars, resolverVars, syncVars>>

RestoreNext ==
    \/ \E m \in {"replace", "merge"} : SetRestoreMode(m)
    \/ \E doc \in Docs : HandleImportBackup(doc, TRUE)
    \/ HandleImportBackup(createBackup(DocBase), FALSE)
    \/ \E doc \in Docs : HandleLoadFromGoogleDrive(doc, "ok")
    \/ \E fetch \in {"http-error", "network-error"} :
          HandleLoadFromGoogleDrive(createBackup(DocBase), fetch)

SpecRestore == RestoreInit /\ [][RestoreNext]_vars

(***************************************************************************)
(* Specification of getOrCreateAppFolder: one client resolving the folder  *)
(* against a backend that holds any folders with the well-known name       *)
(***************************************************************************)
FolderTimes == 1..2

\* where a folder lives and how it is shared: <<driveId, shared, multiPerm,
\* ownedByMe>>.  In My Drive: private, shared by flag, shared by permission
\* count, or owned by somebody else; or inside a shared drive.
FolderKinds ==
    {<<"", FALSE, FALSE, TRUE>>, <<"", TRUE, FALSE, TRUE>>,
     <<"", FALSE, TRUE, TRUE>>, <<"", FALSE, FALSE, FALSE>>,
     <<TargetDrive, FALSE, FALSE, FALSE>>, <<OtherDrive, FALSE, FALSE, FALSE>>}

FolderLists ==
    UNION {
      {[i \in 1..n |-> Folder("f" \o ToString(i), m[i][1][1], m[i][1][2],
                              m[i][1][3], m[i][1][4], m[i][2])] :
          m \in [1..n -> FolderKinds \X FolderTimes]}
      : n \in 0..MaxFolders}

ResolverInit ==
    /\ folders \in FolderLists
    /\ fixedFolderId \in {"", "fixed"}
    /\ resolved = NoResolution
    /\ seen = <<>>
    /\ asked = NoAnswers
    /\ verified = <<>>
    /\ calls = 0
    /\ MergeIdle /\ CodecIdle /\ RestoreIdle /\ SyncIdle

\* what the drives listing can answer: an error, or the drives the
\* credential is a member of
DriveAnswers ==
    {[ok |-> FALSE, names |-> {}]}
        \cup {[ok |-> TRUE, names |-> n] :
                 n \in {{}, {OtherDrive}, {OtherDrive, TargetDrive}}}

\* whether a call with these answers reaches createAppFolderSafely
Creates(probe, searchOk) ==
    probe # "ok" /\ findAllAppFolders(folders, searchOk) = <<>>

GetOrCreateAppFolder(probe, searchOk, drives, createOk, rival, researchOk) ==
    LET target == findTargetSharedDrive(drives)
        out == getOrCreateAppFolder(folders, fixedFolderId, probe, searchOk,
                                    target, createOk, rival, researchOk)
    IN  /\ calls < MaxCalls
        /\ Len(folders) <= MaxFolders
        \* a call that follows one which created nothing starts from a backend
        \* and a configuration that a first call starts from as well
        /\ calls = 0 \/ resolved.created # ""
        /\ (fixedFolderId = "") <=> (probe = "none")
        \* inputs that are not consulted are fixed
        /\ probe = "ok" => searchOk
        /\ ~Creates(probe, searchOk)
              => (drives = NoDrives /\ createOk /\ rival = "none" /\ researchOk)
        /\ target = "" => (rival = "none" /\ researchOk)
        /\ folders' = out.backend
        /\ resolved' = out.res
        /\ verified' = IF "create" \in {out.res.steps[i] : i \in 1..Len(out.res.steps)}
                           /\ target # ""
                        THEN findAllAppFolders(out.backend, researchOk)
                        ELSE <<>>
        /\ seen' = IF probe = "ok" THEN <<>> ELSE findAllAppFolders(folders, searchOk)
        /\ asked' = [probe |-> probe, searchOk |-> searchOk, drives |-> drives,
                     createOk |-> createOk, rival |-> rival, researchOk |-> researchOk]
        /\ calls' = calls + 1
        /\ UNCHANGED fixedFolderId
        /\ UNCHANGED <<mergeVars, codecVars, restoreVars, syncVars>>

ResolverNext ==
    \E probe \in {"none", "ok", "not-ok", "throws"}, searchOk \in BOOLEAN :
        IF Creates(probe, searchOk)
        THEN \E drives \in DriveAnswers, createOk \in BOOLEAN,
                rival \in {"none", "earlier", "same", "later"}, researchOk \in BOOLEAN :
                 GetOrCreateAppFolder(probe, searchOk, drives, createOk, rival, researchOk)
        ELSE GetOrCreateAppFolder(probe, searchOk, NoDrives, TRUE, "none", TRUE)

SpecResolver == ResolverInit /\ [][ResolverNext]_vars

(***************************************************************************)
(* Specification of several clients calling getOrCreateAppFolder at the    *)
(* same time with no fixed id: the requests of createAppFolderSafely       *)
(* interleave.  A stored folder carries its owner; what a client's search  *)
(* lists is its own view of the store.                                     *)
(***************************************************************************)
StoredFolder(i, d, sh, o, t) ==
    [id |-> i, driveId |-> d, shared |-> sh, owner |-> o, modifiedTime |-> t]

\* a folder in a shared drive is listed for every member; a My Drive folder
\* for its owner and for those it is shared with
Visible(c, f) == f.driveId # "" \/ f.owner = c \/ f.shared

RECURSIVE ViewOf(_, _)
\* the files a listing returns to client c, with the fields requested by
\* findAllAppFolders: shared, permissions, ownedByMe, modifiedTime, driveId
ViewOf(c, s) ==
    IF s = <<>> THEN <<>>
    ELSE IF Visible(c, Head(s))
         THEN <<Folder(Head(s).id, Head(s).driveId, Head(s).shared, Head(s).shared,
                       Head(s).owner = c, Head(s).modifiedTime)>>
              \o ViewOf(c, Tail(s))
         ELSE ViewOf(c, Tail(s))

RaceInit ==
    /\ RaceIdle /\ SaveIdle /\ ServiceIdle /\ LocalIdle
    /\ MergeIdle /\ CodecIdle /\ RestoreIdle /\ ResolverIdle

Settled == \A c \in Clients : racer[c].pc \in {"done", "threw"}

\* getOrCreateAppFolder 330-393: the first search of client c
RaceSearch(c, searchOk) ==
    LET allFolders == findAllAppFolders(ViewOf(c, store), searchOk)
    IN  /\ racer[c].pc = "idle"
        /\ racer' = [racer EXCEPT ![c] =
                        IF allFolders # <<>>
                        THEN [pc |-> "done", created |-> "", result |-> pickFolder(allFolders)]
                        ELSE [pc |-> "creating", created |-> "", result |-> ""]]
        /\ UNCHANGED <<store, later>>
        /\ UNCHANGED <<mergeVars, codecVars, restoreVars, resolverVars, saveVars, serviceVars, localVars>>

\* createAppFolderSafely 401-414 and 459-470: findTargetSharedDrive and the
\* creation request; tie: the new folder gets the modifiedTime of the latest
RaceCreate(c, drives, createOk, tie) ==
    LET target == findTargetSharedDrive(drives)
        mine == StoredFolder(NewId(store), target, FALSE, c,
                             LatestTime(store) + (IF tie THEN 0 ELSE 1))
    IN  /\ racer[c].pc = "creating"
        /\ tie => (store # <<>> /\ createOk)
        /\ store' = IF createOk THEN Append(store, mine) ELSE store
        /\ racer' = [racer EXCEPT ![c] =
                        IF target # ""
                        THEN IF createOk
                             THEN [pc |-> "verifying", created |-> mine.id, result |-> ""]
                             ELSE [pc |-> "retrying", created |-> "", result |-> ""]
                        ELSE IF createOk
                             THEN [pc |-> "done", created |-> mine.id, result |-> mine.id]
                             ELSE [pc |-> "threw", created |-> "", result |-> ""]]
        /\ UNCHANGED later
        /\ UNCHANGED <<mergeVars, codecVars, restoreVars, resolverVars, saveVars, serviceVars, localVars>>

\* createAppFolderSafely 417-441: the search after the delay
RaceVerify(c, researchOk) ==
    /\ racer[c].pc = "verifying"
    /\ racer' = [racer EXCEPT ![c] =
                    [pc |-> "done", created |-> @.created,
                     result |-> pickAfterCreation(
                                    findAllAppFolders(ViewOf(c, store), researchOk),
                                    TargetDrive, @.created)]]
    /\ UNCHANGED <<store, later>>
    /\ UNCHANGED <<mergeVars, codecVars, restoreVars, resolverVars, saveVars, serviceVars, localVars>>

\* createAppFolderSafely 442-458: the search after a failed creation
RaceRetry(c, researchOk) ==
    LET retryFolders == findAllAppFolders(ViewOf(c, store), researchOk)
        sharedDriveFolders ==
            SortByModifiedDesc(SelectFolders(retryFolders, IdsInDrive(retryFolders, TargetDrive)))
    IN  /\ racer[c].pc = "retrying"
        /\ racer' = [racer EXCEPT ![c] =
                        IF sharedDriveFolders # <<>>
                        THEN [pc |-> "done", created |-> "", result |-> sharedDriveFolders[1].id]
                        ELSE [pc |-> "threw", created |-> "", result |-> ""]]
        /\ UNCHANGED <<store, later>>
        /\ UNCHANGED <<mergeVars, codecVars, restoreVars, resolverVars, saveVars, serviceVars, localVars>>

\* the owner of a My Drive folder shares it with the other clients
ShareFolder(i) ==
    /\ i \in 1..Len(store)
    /\ store[i].driveId = "" /\ ~store[i].shared
    /\ \A c \in Clients : later[c] = ""
    /\ store' = [store EXCEPT ![i].shared = TRUE]
    /\ UNCHANGED <<racer, later>>
    /\ UNCHANGED <<mergeVars, codecVars, restoreVars, resolverVars, saveVars, serviceVars, localVars>>

\* a getOrCreateAppFolder call made by client c once every first call has
\* ended, the search listing at least one folder
RaceResolveAgain(c) ==
    LET out == getOrCreateAppFolder(ViewOf(c, store), "", "none", TRUE,
                                    "", TRUE, "none", TRUE)
    IN  /\ Settled
        /\ later[c] = ""
        /\ ViewOf(c, store) # <<>>
        /\ later' = [later EXCEPT ![c] = out.res.id]
        /\ UNCHANGED <<store, racer>>
        /\ UNCHANGED <<mergeVars, codecVars, restoreVars, resolverVars, saveVars, serviceVars, localVars>>

RaceNext ==
    \/ \E c \in Clients, searchOk \in BOOLEAN : RaceSearch(c, searchOk)
    \/ \E c \in Clients, drives \in DriveAnswers, createOk \in BOOLEAN, tie \in BOOLEAN :
          RaceCreate(c, drives, createOk, tie)
    \/ \E c \in Clients, researchOk \in BOOLEAN : RaceVerify(c, researchOk)
    \/ \E c \in Clients, researchOk \in BOOLEAN : RaceRetry(c, researchOk)
    \/ \E i \in 1..NumClients : ShareFolder(i)
    \/ \E c \in Clients : RaceResolveAgain(c)

SpecRace == RaceInit /\ [][RaceNext]_vars

(***************************************************************************)
(* Specification of several clients calling saveBackup at the same time on *)
(* one resolved folder: the search request and the write request of each   *)
(* call interleave with those of the others.                               *)
(***************************************************************************)
SharedFileName == "shared_schedule_data.json"
BackupFileName == "backup_file"

\* an artifact of the folder; version counts the writes the backend applied
Artifact(i, n, c, v) == [id |-> i, name |-> n, content |-> c, version |-> v]

\* JSON.stringify(backupData) of the n-th snapshot saved by client c
BodyOf(c, n) == [k \in Keys |-> <<c, n>>]

RECURSIVE FilesNamed(_, _)
\* the files the query name='...' and '<folderId>' in parents lists
FilesNamed(s, n) ==
    IF s = <<>> THEN <<>>
    ELSE IF Head(s).name = n THEN <<Head(s)>> \o FilesNamed(Tail(s), n)
         ELSE FilesNamed(Tail(s), n)

IndexOfFile(s, i) == CHOOSE j \in 1..Len(s) : s[j].id = i

patchRequestIfMatch(fileId, seenVersion, body) ==
    [fileId |-> fileId, body |-> body, ifMatch |-> seenVersion]

\* the PATCH of saveBackup 723-730: the whole body, with the Authorization
\* and Content-Type headers only (no precondition header; 0 stands for none)
patchRequest(fileId, seenVersion, body) ==
    [fileId |-> fileId, body |-> body, ifMatch |-> 0]

uploadMediaKeepPersons(old, body) ==
    [k \in Keys |-> IF k = "persons" THEN old[k] ELSE body[k]]

\* uploadType=media: the request body becomes the content of the file
uploadMedia(old, body) == body

\* whether the backend accepts the request: the file exists and the
\* precondition, if the request carries one, matches
Accepts(s, req) ==
    /\ \E j \in 1..Len(s) : s[j].id = req.fileId
    /\ req.ifMatch = 0 \/ s[IndexOfFile(s, req.fileId)].version = req.ifMatch

SaveInit ==
    /\ files \in {<<>>,
                  <<Artifact("a1", SharedFileName, BodyOf(0, 0), 1)>>,
                  <<Artifact("a1", BackupFileName, BodyOf(0, 0), 1)>>}
    /\ written = [i \in 1..Len(files) |-> BodyOf(0, 0)]
    /\ saver = [c \in Clients |-> NotSaving]
    /\ RaceIdle /\ ServiceIdle /\ LocalIdle
    /\ MergeIdle /\ CodecIdle /\ RestoreIdle /\ ResolverIdle

\* saveBackup 706-720: the folder is resolved and the shared file is searched
SaveSearch(c, searchOk) ==
    LET existingFiles == FilesNamed(files, SharedFileName)
        n == saver[c].saves + 1
    IN  /\ saver[c].pc = "idle"
        /\ saver[c].saves < MaxSaves
        /\ saver' = [saver EXCEPT ![c] =
                        IF ~searchOk
                        THEN [pc |-> "idle", fileId |-> "", seenVersion |-> 0,
                              body |-> BodyOf(c, n), saves |-> n,
                              outcome |-> "search-failed"]
                        ELSE IF existingFiles # <<>>
                        THEN [pc |-> "update", fileId |-> existingFiles[1].id,
                              seenVersion |-> existingFiles[1].version,
                              body |-> BodyOf(c, n), saves |-> n, outcome |-> "none"]
                        ELSE [pc |-> "create", fileId |-> "", seenVersion |-> 0,
                              body |-> BodyOf(c, n), saves |-> n, outcome |-> "none"]]
        /\ UNCHANGED <<files, written>>
        /\ UNCHANGED <<mergeVars, codecVars, restoreVars, resolverVars, raceVars, serviceVars, localVars>>

\* saveBackup 721-739: the existing file is overwritten
SaveUpdate(c, transportOk) ==
    LET req == patchRequest(saver[c].fileId, saver[c].seenVersion, saver[c].body)
        j == IndexOfFile(files, req.fileId)
    IN  /\ saver[c].pc = "update"
        /\ IF ~transportOk
           THEN /\ saver' = [saver EXCEPT ![c].pc = "idle", ![c].outcome = "update-failed"]
                /\ UNCHANGED <<files, written>>
           ELSE IF Accepts(files, req)
           THEN /\ files' = [files EXCEPT ![j].content = uploadMedia(@, req.body),
                                          ![j].version = @ + 1]
                /\ written' = [written EXCEPT ![j] = req.body]
                /\ saver' = [saver EXCEPT ![c].pc = "idle", ![c].outcome = "saved"]
           ELSE /\ saver' = [saver EXCEPT ![c].pc = "idle", ![c].outcome = "rejected"]
                /\ UNCHANGED <<files, written>>
        /\ UNCHANGED <<mergeVars, codecVars, restoreVars, resolverVars, raceVars, serviceVars, localVars>>

\* saveBackup 741-765: no file was found, one is created
SaveCreate(c, transportOk) ==
    LET new == Artifact("a" \o ToString(Len(files) + 1), SharedFileName,
                        uploadMedia(EmptyPayload, saver[c].body), 1)
    IN  /\ saver[c].pc = "create"
        /\ IF transportOk
           THEN /\ files' = Append(files, new)
                /\ written' = Append(written, saver[c].body)
                /\ saver' = [saver EXCEPT ![c].pc = "idle", ![c].outcome = "saved",
                                          ![c].fileId = new.id]
           ELSE /\ saver' = [saver EXCEPT ![c].pc = "idle", ![c].outcome = "create-failed"]
                /\ UNCHANGED <<files, written>>
        /\ UNCHANGED <<mergeVars, codecVars, restoreVars, resolverVars, raceVars, serviceVars, localVars>>

SaveNext ==
    \/ \E c \in Clients, searchOk \in BOOLEAN : SaveSearch(c, searchOk)
    \/ \E c \in Clients, transportOk \in BOOLEAN : SaveUpdate(c, transportOk)
    \/ \E c \in Clients, transportOk \in BOOLEAN : SaveCreate(c, transportOk)

SpecSave == SaveInit /\ [][SaveNext]_vars

(***************************************************************************)
(* Specification of one client calling the operations of the service, with *)
(* and without an access token, against a backend that answers each        *)
(* request in any way it can                                               *)
(***************************************************************************)
\* the folders of the backend when the operation is called
ServiceBackends == {<<>>, <<Folder("f1", TargetDrive, FALSE, FALSE, FALSE, 1)>>}

\* what a DELETE or a listing request can be answered: a success with a JSON
\* body or with no body (204), an error status whose text may hold the
\* digits of another status code, or no response at all
ErrorAnswers ==
    {Answer(st, "json", mn) : st \in {403, 404, 500}, mn \in SUBSET {403, 404}}
        \cup {Answer(0, "empty", {})}

DeleteAnswers == {OkAnswer, Answer(204, "empty", {})} \cup ErrorAnswers

ListedFile(i, n, t) == [id |-> i, name |-> n, modifiedTime |-> t]

SharedListings ==
    {[answer |-> OkAnswer, files |-> fs] :
        fs \in {<<>>, <<ListedFile("s1", SharedFileName, 2)>>}}
        \cup {[answer |-> Answer(403, "json", {}), files |-> <<>>]}

BackupListings ==
    {[answer |-> OkAnswer, files |-> fs] :
        fs \in {<<>>, <<ListedFile("b1", BackupFileName, 1)>>,
                <<ListedFile("b1", BackupFileName, 1), ListedFile("b2", BackupFileName, 3)>>,
                <<ListedFile("b2", BackupFileName, 3), ListedFile("b1", BackupFileName, 1)>>}}
        \cup {[answer |-> Answer(0, "empty", {}), files |-> <<>>]}

ProbeAnswers == {"ok", "403", "404", "throws"}

ServiceInit ==
    /\ accessToken \in {"", "token"}
    /\ configuredId \in {"", "fixed"}
    /\ call = NoCall
    /\ outcome = NoOutcome
    /\ RaceIdle /\ SaveIdle /\ LocalIdle
    /\ MergeIdle /\ CodecIdle /\ RestoreIdle /\ ResolverIdle

\* signIn 153-187: the token of the response is kept
SignIn ==
    /\ accessToken = "" /\ call = NoCall
    /\ accessToken' = "token"
    /\ UNCHANGED <<configuredId, call, outcome>>
    /\ UNCHANGED <<mergeVars, codecVars, restoreVars, resolverVars, raceVars, saveVars, localVars>>

\* signOut 251-258
SignOut ==
    /\ accessToken # "" /\ call = NoCall
    /\ accessToken' = ""
    /\ UNCHANGED <<configuredId, call, outcome>>
    /\ UNCHANGED <<mergeVars, codecVars, restoreVars, resolverVars, raceVars, saveVars, localVars>>

\* the operations do not depend on one another: a behaviour makes one call.
\* A request made without a token is not answered with a success
Plausible(probe) ==
    /\ call = NoCall
    /\ (configuredId = "") <=> (probe = "none")
    /\ accessToken = "" => probe # "ok"

CallGetOrCreateAppFolder(backend, probe, searchOk, drives, createOk) ==
    /\ Plausible(probe)
    /\ call' = [op |-> "getOrCreateAppFolder", probe |-> probe]
    /\ outcome' = ResolveFolder(accessToken, backend, configuredId, probe,
                                searchOk, drives, createOk)
    /\ UNCHANGED <<accessToken, configuredId>>
    /\ UNCHANGED <<mergeVars, codecVars, restoreVars, resolverVars, raceVars, saveVars, localVars>>

CallSaveBackup(backend, probe, createOk, existing, writeOk) ==
    /\ Plausible(probe)
    /\ accessToken = "" => ~writeOk
    /\ call' = [op |-> "saveBackup", probe |-> probe]
    /\ outcome' = saveBackup(accessToken,
                             ResolveFolder(accessToken, backend, configuredId, probe,
                                           TRUE, NoDrives, createOk),
                             existing, writeOk)
    /\ UNCHANGED <<accessToken, configuredId>>
    /\ UNCHANGED <<mergeVars, codecVars, restoreVars, resolverVars, raceVars, saveVars, localVars>>

CallLoadBackup(doc, fetch) ==
    LET r == loadBackup(doc, fetch)
    IN  /\ call = NoCall
        /\ accessToken = "" => fetch # "ok"
        /\ call' = [op |-> "loadBackup", fetch |-> fetch]
        /\ outcome' = IF r.status = "returned"
                      THEN Done("returned", "none", "none", 1, <<>>)
                      ELSE Done("threw",
                                IF fetch = "http-error" THEN "load-failed"
                                ELSE IF fetch = "network-error" THEN "network"
                                ELSE "type-error",
                                "fetch", 1, <<>>)
        /\ UNCHANGED <<accessToken, configuredId>>
        /\ UNCHANGED <<mergeVars, codecVars, restoreVars, resolverVars, raceVars, saveVars, localVars>>

CallListBackupFiles(backend, probe, createOk, sharedList, backupList, probes) ==
    LET folder == ResolveFolder(accessToken, backend, configuredId, probe,
                                TRUE, NoDrives, createOk)
    IN  /\ Plausible(probe)
        \* the probes of files that are not listed are not made
        /\ \A i \in DOMAIN probes :
              i \notin IdsOf(sharedList.files \o backupList.files) => probes[i] = "throws"
        /\ accessToken = "" => \A i \in DOMAIN probes : probes[i] # "ok"
        /\ call' = [op |-> "listBackupFiles", probe |-> probe, folder |-> folder,
                    sharedList |-> sharedList, backupList |-> backupList,
                    probes |-> probes]
        /\ outcome' = listBackupFiles(accessToken, folder, sharedList, backupList, probes)
        /\ UNCHANGED <<accessToken, configuredId>>
        /\ UNCHANGED <<mergeVars, codecVars, restoreVars, resolverVars, raceVars, saveVars, localVars>>

CallDeleteBackup(answer) ==
    /\ call = NoCall
    /\ call' = [op |-> "deleteBackup", answer |-> answer]
    /\ outcome' = deleteBackup(accessToken, answer)
    /\ UNCHANGED <<accessToken, configuredId>>
    /\ UNCHANGED <<mergeVars, codecVars, restoreVars, resolverVars, raceVars, saveVars, localVars>>

ServiceNext ==
    \/ SignIn
    \/ SignOut
    \/ \E backend \in ServiceBackends, probe \in {"none", "ok", "not-ok", "throws"},
          searchOk \in BOOLEAN, drives \in DriveAnswers, createOk \in BOOLEAN :
            CallGetOrCreateAppFolder(backend, probe, searchOk, drives, createOk)
    \/ \E backend \in ServiceBackends, probe \in {"none", "ok", "not-ok", "throws"},
          createOk \in BOOLEAN, existing \in SharedListings, writeOk \in BOOLEAN :
            CallSaveBackup(backend, probe, createOk, existing, writeOk)
    \/ \E doc \in {GarbageDoc, createBackup(DocBase)},
          fetch \in {"ok", "http-error", "network-error"} :
            CallLoadBackup(doc, fetch)
    \/ \E backend \in ServiceBackends, probe \in {"none", "ok", "not-ok", "throws"},
          createOk \in BOOLEAN, sharedList \in SharedListings,
          backupList \in BackupListings,
          probes \in [{"s1", "b1", "b2"} -> ProbeAnswers] :
            CallListBackupFiles(backend, probe, createOk, sharedList, backupList, probes)
    \/ \E answer \in DeleteAnswers : CallDeleteBackup(answer)

SpecService == ServiceInit /\ [][ServiceNext]_vars

(***************************************************************************)
(* Local automatic backups (autoBackup.ts).  The history and the time of   *)
(* the last run are two localStorage items.  Every `new Date()` is a       *)
(* reading of the clock of its own: the clock may advance between two      *)
(* readings of one call.  localStorage is "ok", "denied" (every access     *)
(* throws) or "full" (setItem of the history throws); the time of the last *)
(* run is a string of constant length written right after the history, and *)
(* its write is taken to succeed whenever the write of the history did.    *)
(***************************************************************************)
AUTO_BACKUP_INTERVAL == 24 * 60 * 60 * 1000

MAX_AUTO_BACKUPS == 7

\* Date.prototype.getTime
getTime(d) == d.v[1]

\* the item written by setItem(AUTO_BACKUP_KEY, JSON.stringify(existingBackups))
StoredHistory(s) == [tag |-> "string", v |-> [i \in 1..Len(s) |-> JSONstringify(s[i])]]

\* createBackup(...) at clock reading t
Snapshot(data, t) == [createBackup(data) EXCEPT !.timestamp = toISOString(t)]

\* readable: localStorage.getItem does not throw
getAutoBackups(stored, readable) ==
    IF readable /\ stored.tag # "null" THEN stored.v ELSE <<>>

shouldCreateAutoBackupStrict(lastBackupTime, now, readable) ==
    IF ~readable THEN FALSE
    ELSE IF lastBackupTime.tag = "null" THEN TRUE
    ELSE now - getTime(NewDate(lastBackupTime)) > AUTO_BACKUP_INTERVAL

shouldCreateAutoBackup(lastBackupTime, now, readable) ==
    IF ~readable THEN FALSE
    ELSE IF lastBackupTime.tag = "null" THEN TRUE
    ELSE now - getTime(NewDate(lastBackupTime)) >= AUTO_BACKUP_INTERVAL

createAutoBackupKeepOldest(stored, last, data, storage, t1, t2) ==
    LET existingBackups == getAutoBackups(stored, storage # "denied")
        pushed == Append(existingBackups, Snapshot(data, t1))
        kept == IF Len(pushed) > MAX_AUTO_BACKUPS
                THEN SubSeq(pushed, 1, MAX_AUTO_BACKUPS)
                ELSE pushed
    IN  IF storage # "ok"
        THEN [backups |-> stored, last |-> last, wrote |-> FALSE]
        ELSE [backups |-> StoredHistory(kept), last |-> toISOString(t2), wrote |-> TRUE]

createAutoBackupNoMarker(stored, last, data, storage, t1, t2) ==
    LET existingBackups == getAutoBackups(stored, storage # "denied")
        pushed == Append(existingBackups, Snapshot(data, t1))
        kept == IF Len(pushed) > MAX_AUTO_BACKUPS
                THEN SubSeq(pushed, Len(pushed) - MAX_AUTO_BACKUPS + 1, Len(pushed))
                ELSE pushed
    IN  IF storage # "ok"
        THEN [backups |-> stored, last |-> last, wrote |-> FALSE]
        ELSE [backups |-> StoredHistory(kept), last |-> last, wrote |-> TRUE]

\* t1: the clock read by createBackup; t2: the clock read for LAST_AUTO_BACKUP_KEY
createAutoBackup(stored, last, data, storage, t1, t2) ==
    LET backupData == Snapshot(data, t1)
        existingBackups == getAutoBackups(stored, storage # "denied")
        pushed == Append(existingBackups, backupData)
        \* existingBackups.splice(0, existingBackups.length - MAX_AUTO_BACKUPS)
        kept == IF Len(pushed) > MAX_AUTO_BACKUPS
                THEN SubSeq(pushed, Len(pushed) - MAX_AUTO_BACKUPS + 1, Len(pushed))
                ELSE pushed
    IN  IF storage # "ok"
        THEN [backups |-> stored, last |-> last, wrote |-> FALSE]
        ELSE [backups |-> StoredHistory(kept), last |-> toISOString(t2), wrote |-> TRUE]

\* removeItem of both keys; the first removeItem throws when access is denied
clearAutoBackups(stored, last, storage) ==
    IF storage = "denied"
    THEN [backups |-> stored, last |-> last]
    ELSE [backups |-> NullItem, last |-> NullItem]

(***************************************************************************)
(* Specification of the automatic backups.  localStorage outlives the      *)
(* page: a session starts with no history or with the history of earlier   *)
(* daily runs.                                                             *)
(***************************************************************************)
MaxAutoCalls == 2

StartTime == 2 * 1000 - 1

HistoryAtStart == {0, MAX_AUTO_BACKUPS - 1, MAX_AUTO_BACKUPS}

RunTime(i) == StartTime + i * AUTO_BACKUP_INTERVAL

\* whether a snapshot was recorded before the call made at time t, and how long ago
Ran == recorded # <<>>

Since(t) == IF Ran THEN t - recorded[Len(recorded)].marked ELSE 0

Recorded(data, t1, t2, via) ==
    [snapshot |-> JSONstringify(Snapshot(data, t1)), marked |-> t2, via |-> via]

AutoPayloads == {EmptyPayload, DocBase}

Gaps == {0, AUTO_BACKUP_INTERVAL - 1, AUTO_BACKUP_INTERVAL}

Ticks == {0, 1}

StorageStates == {"ok", "denied", "full"}

remoteVars ==
    <<mergeVars, codecVars, restoreVars, resolverVars, raceVars, saveVars, serviceVars>>

RemoteIdle ==
    /\ MergeIdle /\ CodecIdle /\ RestoreIdle /\ ResolverIdle
    /\ RaceIdle /\ SaveIdle /\ ServiceIdle

AutoBackupInit ==
    /\ \E k \in HistoryAtStart :
         /\ clock = RunTime(k)
         /\ autoBackups =
              IF k = 0 THEN NullItem
              ELSE StoredHistory([i \in 1..k |-> Snapshot(DocBase, RunTime(i))])
         /\ lastAutoBackup = IF k = 0 THEN NullItem ELSE toISOString(RunTime(k))
         /\ recorded = [i \in 1..k |-> Recorded(DocBase, RunTime(i), RunTime(i), "check")]
    /\ autoCall = NoAutoCall
    /\ RemoteIdle /\ ExportIdle /\ AutoSaveIdle

\* checkAndCreateAutoBackup, called `gap` after the last clock reading
CheckAndCreateAutoBackup(gap, data, storage, tick1, tick2) ==
    LET now == clock + gap
        should == shouldCreateAutoBackup(lastAutoBackup, now, storage # "denied")
        t1 == now + tick1
        t2 == t1 + tick2
        made == createAutoBackup(autoBackups, lastAutoBackup, data, storage, t1, t2)
    IN  /\ autoCall.n < MaxAutoCalls
        \* what is not read or written does not distinguish calls
        /\ ~should => tick1 = 0 /\ tick2 = 0 /\ data = EmptyPayload
        /\ storage = "full" => tick1 = 0 /\ tick2 = 0 /\ data = EmptyPayload
        /\ clock' = IF should THEN t2 ELSE now
        /\ autoBackups' = IF should THEN made.backups ELSE autoBackups
        /\ lastAutoBackup' = IF should THEN made.last ELSE lastAutoBackup
        /\ recorded' = IF should /\ made.wrote
                       THEN Append(recorded, Recorded(data, t1, t2, "check"))
                       ELSE recorded
        /\ autoCall' = [n |-> autoCall.n + 1, op |-> "checkAndCreateAutoBackup",
                        at |-> now, storage |-> storage, should |-> should,
                        wrote |-> should /\ made.wrote, ran |-> Ran, since |-> Since(now)]
        /\ UNCHANGED <<remoteVars, exportVars, autoSaveVars>>

\* createAutoBackup called on its own
CreateAutoBackup(gap, data, storage, tick2) ==
    LET t1 == clock + gap
        t2 == t1 + tick2
        made == createAutoBackup(autoBackups, lastAutoBackup, data, storage, t1, t2)
    IN  /\ autoCall.n < MaxAutoCalls
        /\ storage # "ok" => tick2 = 0 /\ data = EmptyPayload
        /\ clock' = t2
        /\ autoBackups' = made.backups
        /\ lastAutoBackup' = made.last
        /\ recorded' = IF made.wrote
                       THEN Append(recorded, Recorded(data, t1, t2, "direct"))
                       ELSE recorded
        /\ autoCall' = [n |-> autoCall.n + 1, op |-> "createAutoBackup",
                        at |-> t1, storage |-> storage, should |-> FALSE,
                        wrote |-> made.wrote, ran |-> Ran, since |-> Since(t1)]
        /\ UNCHANGED <<remoteVars, exportVars, autoSaveVars>>

ClearAutoBackups(storage) ==
    LET cleared == clearAutoBackups(autoBackups, lastAutoBackup, storage)
    IN  /\ autoCall.n < MaxAutoCalls
        /\ autoBackups' = cleared.backups
        /\ lastAutoBackup' = cleared.last
        /\ recorded' = IF storage = "denied" THEN recorded ELSE <<>>
        /\ autoCall' = [n |-> autoCall.n + 1, op |-> "clearAutoBackups",
                        at |-> clock, storage |-> storage, should |-> FALSE,
                        wrote |-> FALSE, ran |-> Ran, since |-> Since(clock)]
        /\ UNCHANGED <<clock, remoteVars, exportVars, autoSaveVars>>

AutoBackupNext ==
    \/ \E gap \in Gaps, data \in AutoPayloads, storage \in StorageStates,
          tick1 \in Ticks, tick2 \in Ticks :
            CheckAndCreateAutoBackup(gap, data, storage, tick1, tick2)
    \/ \E gap \in Gaps, data \in AutoPayloads, storage \in StorageStates, tick2 \in Ticks :
            CreateAutoBackup(gap, data, storage, tick2)
    \/ \E storage \in {"ok", "denied"} : ClearAutoBackups(storage)

SpecAutoBackup == AutoBackupInit /\ [][AutoBackupNext]_vars

(***************************************************************************)
(* Local exports and their counter (backup.ts 40-149).  The counter is the *)
(* localStorage item LOCAL_BACKUP_KEY, a decimal string.  localStorage is  *)
(* "ok" or "denied" (an access throws and the catch of the accessor runs). *)
(***************************************************************************)
MAX_LOCAL_BACKUPS == 3

\* (n).toString() as the item holds it
CountItem(n) == [tag |-> "string", v |-> <<n>>]

\* parseInt(localStorage.getItem(LOCAL_BACKUP_KEY) || '0', 10)
parseInt(item) == IF item.tag = "null" THEN 0 ELSE item.v[1]

getLocalBackupCountInternal(item, storage) ==
    IF storage = "ok" THEN parseInt(item) ELSE 0

incrementBackupCountTwice(item, storage) ==
    IF storage = "ok"
    THEN CountItem(getLocalBackupCountInternal(item, storage) + 2)
    ELSE item

incrementBackupCount(item, storage) ==
    IF storage = "ok"
    THEN CountItem(getLocalBackupCountInternal(item, storage) + 1)
    ELSE item

resetBackupCount(item, storage) == IF storage = "ok" THEN CountItem(0) ELSE item

exportBackupAbove(item, storage, shouldContinue, hasPicker) ==
    LET currentCount == getLocalBackupCountInternal(item, storage)
        prompted == currentCount > MAX_LOCAL_BACKUPS
    IN  [count |-> currentCount, prompted |-> prompted,
         route |-> IF prompted /\ ~shouldContinue THEN "declined"
                   ELSE IF hasPicker THEN "saveWithFilePicker"
                   ELSE "saveWithDownloadLink"]

\* the synchronous part of exportBackup: the prompt and the route taken
exportBackup(item, storage, shouldContinue, hasPicker) ==
    LET currentCount == getLocalBackupCountInternal(item, storage)
        prompted == currentCount >= MAX_LOCAL_BACKUPS
    IN  [count |-> currentCount, prompted |-> prompted,
         route |-> IF prompted /\ ~shouldContinue THEN "declined"
                   ELSE IF hasPicker THEN "saveWithFilePicker"
                   ELSE "saveWithDownloadLink"]

saveWithFilePickerNoFallback(picked) ==
    IF picked = "saved" THEN <<"file-picker">> ELSE <<>>

\* how saveWithFilePicker delivers the file; picked: "saved", "aborted" (the
\* user closed the picker) or "failed" (the picker or the write threw)
saveWithFilePicker(picked) ==
    IF picked = "saved" THEN <<"file-picker">> ELSE <<"download-link">>

(***************************************************************************)
(* Specification of the local exports.  The counter outlives the page: a   *)
(* session starts with any count earlier sessions left.  The file picker   *)
(* is a modal dialog: no other export starts while it is open.             *)
(***************************************************************************)
MaxExports == 3

CountsAtStart == {NullItem} \cup {CountItem(n) : n \in 0..(MAX_LOCAL_BACKUPS + 1)}

ExportInit ==
    /\ backupCount \in CountsAtStart
    /\ hasFilePicker \in BOOLEAN
    /\ pending = 0
    /\ exported = <<>>
    /\ exportCall = NoExport
    /\ RemoteIdle /\ AutoBackupIdle /\ AutoSaveIdle

ExportBackup(storage, shouldContinue) ==
    LET run == exportBackup(backupCount, storage, shouldContinue, hasFilePicker)
    IN  /\ exportCall.n < MaxExports
        /\ pending = 0
        \* confirm() is not shown below the threshold
        /\ ~run.prompted => shouldContinue
        /\ pending' = IF run.route = "saveWithFilePicker" THEN 1 ELSE 0
        /\ exported' = IF run.route = "saveWithDownloadLink"
                       THEN Append(exported, "download-link")
                       ELSE exported
        /\ backupCount' = IF run.route = "saveWithDownloadLink"
                          THEN incrementBackupCount(backupCount, storage)
                          ELSE backupCount
        /\ exportCall' = [n |-> exportCall.n + 1, op |-> "exportBackup",
                          storage |-> storage, stored |-> parseInt(backupCount),
                          prompted |-> run.prompted, shouldContinue |-> shouldContinue,
                          route |-> run.route]
        /\ UNCHANGED <<hasFilePicker, remoteVars, autoBackupVars, autoSaveVars>>

\* the promise of showSaveFilePicker and of the write settles
FilePickerSettles(picked, storage) ==
    /\ pending = 1
    /\ pending' = 0
    /\ exported' = exported \o saveWithFilePicker(picked)
    /\ backupCount' = incrementBackupCount(backupCount, storage)
    /\ exportCall' = [exportCall EXCEPT !.op = "saveWithFilePicker", !.storage = storage,
                                        !.stored = parseInt(backupCount),
                                        !.route = picked]
    /\ UNCHANGED <<hasFilePicker, remoteVars, autoBackupVars, autoSaveVars>>

ResetLocalBackupCount(storage) ==
    /\ exportCall.n < MaxExports
    /\ backupCount' = resetBackupCount(backupCount, storage)
    /\ exportCall' = [n |-> exportCall.n + 1, op |-> "resetLocalBackupCount",
                      storage |-> storage, stored |-> parseInt(backupCount),
                      prompted |-> FALSE, shouldContinue |-> FALSE, route |-> "none"]
    /\ UNCHANGED <<pending, exported, hasFilePicker, remoteVars, autoBackupVars, autoSaveVars>>

ExportNext ==
    \/ \E storage \in {"ok", "denied"}, shouldContinue \in BOOLEAN :
            ExportBackup(storage, shouldContinue)
    \/ \E picked \in {"saved", "aborted", "failed"}, storage \in {"ok", "denied"} :
            FilePickerSettles(picked, storage)
    \/ \E storage \in {"ok", "denied"} : ResetLocalBackupCount(storage)

SpecExport == ExportInit /\ [][ExportNext]_vars

(***************************************************************************)
(* useAutoSaveToGoogleDrive (hooks/useAutoSaveToGoogleDrive.ts).  A render *)
(* of the hook creates a performAutoSave that reads the props and the      *)
(* isSaving state of that render.  The effect runs after a render whose    *)
(* collections or autoSaveEnabled differ from the previous one: it clears  *)
(* the pending timer and, when enabled, arms a timer that calls the        *)
(* performAutoSave of that render.  manualSave is the one of the latest    *)
(* render.  lastDataRef is a ref, read when performAutoSave runs.  State   *)
(* updates are taken to be rendered before the next timer or click runs.   *)
(***************************************************************************)
\* the effect of 135-153 after a render whose dependencies changed
ArmTimer(c) == IF c.autoSaveEnabled THEN Timer(c) ELSE NoTimer

\* performAutoSave of a render: whether it goes on to call saveBackup
performAutoSave(c, isSignedIn, lastData) ==
    /\ c.autoSaveEnabled /\ isSignedIn /\ ~c.isSaving
    /\ getCurrentDataHash(c.data) # lastData

(***************************************************************************)
(* Specification of the hook in one client                                 *)
(***************************************************************************)
MaxTriggers == 3

MaxEdits == 2

AutoSaveInit ==
    /\ collections = EmptyPayload
    /\ autoSaveEnabled \in BOOLEAN
    /\ signedIn \in BOOLEAN
    /\ isSaving = FALSE
    /\ lastDataRef = EmptyString
    \* the effect of the first render
    /\ timer = ArmTimer(Closure(collections, autoSaveEnabled, FALSE))
    /\ inFlight = <<>>
    /\ lastSettled = NoSettled
    /\ saveCall = NoSaveCall
    /\ edits = 0
    /\ RemoteIdle /\ AutoBackupIdle /\ ExportIdle

\* one of the collections is replaced: render, then the effect
ChangeData(d) ==
    /\ edits < MaxEdits
    /\ d # collections
    /\ collections' = d
    /\ timer' = ArmTimer(Closure(d, autoSaveEnabled, isSaving))
    /\ edits' = edits + 1
    /\ UNCHANGED <<autoSaveEnabled, signedIn, isSaving, lastDataRef, inFlight,
                   lastSettled, saveCall>>
    /\ UNCHANGED <<remoteVars, autoBackupVars, exportVars>>

\* the autoSaveEnabled prop changes: render, then the effect
SetAutoSaveEnabled ==
    /\ edits < MaxEdits
    /\ autoSaveEnabled' = ~autoSaveEnabled
    /\ timer' = ArmTimer(Closure(collections, ~autoSaveEnabled, isSaving))
    /\ edits' = edits + 1
    /\ UNCHANGED <<collections, signedIn, isSaving, lastDataRef, inFlight, lastSettled, saveCall>>
    /\ UNCHANGED <<remoteVars, autoBackupVars, exportVars>>

\* googleDriveService.signIn / signOut: isSignedIn() changes, no render
SetSignedIn ==
    /\ edits < MaxEdits
    /\ signedIn' = ~signedIn
    /\ edits' = edits + 1
    /\ UNCHANGED <<collections, autoSaveEnabled, isSaving, lastDataRef, timer, inFlight,
                   lastSettled, saveCall>>
    /\ UNCHANGED <<remoteVars, autoBackupVars, exportVars>>

\* performAutoSave up to its await: setIsSaving(true) and the saveBackup call
Trigger(c, by) ==
    LET starts == performAutoSave(c, signedIn, lastDataRef)
    IN  /\ saveCall.n < MaxTriggers
        /\ isSaving' = IF starts THEN TRUE ELSE isSaving
        /\ inFlight' = IF starts THEN Append(inFlight, getCurrentDataHash(c.data))
                       ELSE inFlight
        /\ saveCall' = [n |-> saveCall.n + 1, by |-> by, started |-> starts]
        /\ UNCHANGED <<collections, autoSaveEnabled, signedIn, lastDataRef, lastSettled, edits>>
        /\ UNCHANGED <<remoteVars, autoBackupVars, exportVars>>

\* the debounce timer fires and calls the performAutoSave it was armed with
TimerFires ==
    /\ timer.armed
    /\ Trigger(timer.closure, "timer")
    /\ timer' = NoTimer

\* manualSave: the performAutoSave of the latest render
ManualSave ==
    /\ Trigger(Closure(collections, autoSaveEnabled, isSaving), "manualSave")
    /\ UNCHANGED timer

\* the saveBackup call in flight at position i settles
SaveSettles(i, ok) ==
    /\ i \in 1..Len(inFlight)
    /\ inFlight' = SubSeq(inFlight, 1, i - 1) \o SubSeq(inFlight, i + 1, Len(inFlight))
    /\ lastDataRef' = IF ok THEN inFlight[i] ELSE lastDataRef
    /\ isSaving' = FALSE
    /\ lastSettled' = [status |-> IF ok THEN "success" ELSE "error", hash |-> inFlight[i]]
    /\ UNCHANGED <<collections, autoSaveEnabled, signedIn, timer, saveCall, edits>>
    /\ UNCHANGED <<remoteVars, autoBackupVars, exportVars>>

AutoSaveNext ==
    \/ \E d \in AutoPayloads : ChangeData(d)
    \/ SetAutoSaveEnabled
    \/ SetSignedIn
    \/ TimerFires
    \/ ManualSave
    \/ \E i \in 1..MaxTriggers, ok \in BOOLEAN : SaveSettles(i, ok)

SpecAutoSave == AutoSaveInit /\ [][AutoSaveNext]_vars

(***************************************************************************)
(* Properties of mergeBackupData (checked under SpecMerge)                 *)
(***************************************************************************)

Absent(v) == v.tag \in {"undefined", "falsy"}

MergeReturned == mpc # "start" /\ mode = "merge" /\ ~merged.threw

\* C1: merge idempotence - merging the same incoming payload into the result
\* of a merge gives that result again, in each of the six sequences (same
\* records, same order).
C1_MergeIdempotent ==
    (mpc = "twice" /\ mode = "merge")
        => (~mergedAgain.threw /\ mergedAgain.data = merged.data)

C1_Witness ==
    /\ mpc = "twice" /\ mode = "merge"
    /\ \E k \in Keys : Len(merged.data[k].items) > Len(current[k].items)
    /\ \E k \in Keys : IdsOf(current[k].items) \cap IdsOf(backup[k].items) # {}

\* C2: merge no-loss, local wins - every record of each local sequence is
\* present in the merged sequence, and no merged record carrying a local id
\* differs from the local records, also when the incoming payload holds a
\* record with the same id and other fields.
C2_MergeNoLoss ==
    MergeReturned =>
        \A k \in Keys :
            LET c == current[k].items
                r == merged.data[k].items
            IN  /\ \A i \in 1..Len(c) : \E j \in 1..Len(r) : r[j] = c[i]
                /\ \A j \in 1..Len(r) :
                      r[j].id \in IdsOf(c) => \E i \in 1..Len(c) : c[i] = r[j]

C2_Witness ==
    /\ MergeReturned
    /\ \E k \in Keys :
         \E i \in 1..Len(current[k].items), j \in 1..Len(backup[k].items) :
            /\ current[k].items[i].id = backup[k].items[j].id
            /\ current[k].items[i] # backup[k].items[j]

\* C3 as stated: replace equals the incoming payload for each sequence present
\* in it and yields an empty sequence for every one of the six sequences
\* absent from it.
C3_ReplaceTotalityAsStated ==
    (mpc # "start" /\ mode = "replace") =>
        \A k \in Keys :
            IF Absent(backup[k])
            THEN merged.data[k] = Arr(<<>>)
            ELSE merged.data[k] = backup[k]

\* C3 amended: replace never throws, equals the incoming payload for each
\* sequence present in it, yields an empty sequence for nurseOnCalls when
\* that is absent, and leaves any other absent sequence absent.
C3_ReplaceTotality ==
    (mpc # "start" /\ mode = "replace") =>
        /\ ~merged.threw
        /\ \A k \in Keys :
            IF k = "nurseOnCalls" /\ Absent(backup[k])
            THEN merged.data[k] = Arr(<<>>)
            ELSE merged.data[k] = backup[k]

C3_Witness ==
    /\ mpc # "start" /\ mode = "replace"
    /\ backup["nurseOnCalls"] = Undefined
    /\ merged.data["nurseOnCalls"] = Arr(<<>>)
    /\ \E k \in Keys : current[k] # merged.data[k]

\* the j-th index (in increasing order) of the incoming records whose id is new
NewIdx(c, b) == {j \in 1..Len(b) : b[j].id \notin IdsOf(c)}

\* C4: merge order - each merged sequence is the local sequence in its
\* original order followed by the incoming records whose id is not in the
\* local sequence, in incoming order.
C4_MergeOrder ==
    MergeReturned =>
        \A k \in Keys :
            LET c == current[k].items
                b == BackupArg(backup, k).items
                r == merged.data[k].items
                idx == NewIdx(c, b)
            IN  /\ Len(r) = Len(c) + Cardinality(idx)
                /\ \A i \in 1..Len(c) : r[i] = c[i]
                /\ \A j \in idx :
                      r[Len(c) + 1 + Cardinality({j2 \in idx : j2 < j})] = b[j]

C4_Witness ==
    /\ MergeReturned
    /\ \E k \in Keys :
         /\ Len(current[k].items) >= 1
         /\ Cardinality(NewIdx(current[k].items, backup[k].items)) >= 2
         /\ Len(backup[k].items) > Cardinality(NewIdx(current[k].items, backup[k].items))

(***************************************************************************)
(* Properties of the codec (checked under SpecRoundTrip)                   *)
(***************************************************************************)
\* the time a date field denotes, whatever its representation
\* (-1: no date)
TimeOf(d) ==
    IF d.tag = "Date" THEN d.v[1]
    ELSE IF d.tag = "string" THEN d.v[1] * 1000 + d.v[2]
    ELSE -1

ByValue(r) ==
    [id |-> r.id, name |-> r.name, date |-> TimeOf(r.date),
     startDate |-> TimeOf(r.startDate), endDate |-> TimeOf(r.endDate)]

SameByValue(v, w) ==
    /\ IsArray(v) /\ IsArray(w)
    /\ Len(v.items) = Len(w.items)
    /\ \A i \in 1..Len(v.items) : ByValue(v.items[i]) = ByValue(w.items[i])

\* C8: round trip - decoding the serialized createBackup(P) gives a snapshot
\* whose six sequences equal P record for record and in order, dates compared
\* by value, through importBackup and through loadBackup.
C8_RoundTrip ==
    /\ "import" \in rpc =>
         /\ viaImport.status = "resolved"
         /\ \A k \in Keys : SameByValue(viaImport.doc.data[k], payload[k])
    /\ "drive" \in rpc =>
         /\ viaDrive.status = "returned"
         /\ \A k \in Keys : SameByValue(viaDrive.doc.data[k], payload[k])

C8_Witness ==
    /\ rpc = {"wire", "import", "drive"}
    /\ \E i \in 1..Len(payload["schedules"].items) :
          /\ payload["schedules"].items[i].endDate = DateObj(2001)
          /\ viaImport.doc.data["schedules"].items[i].endDate = DateStr(2, 1)
          /\ viaDrive.doc.data["schedules"].items[i].endDate = DateObj(2001)
    /\ Len(payload["onCalls"].items) >= 1

(***************************************************************************)
(* Properties of the restore handlers (checked under SpecRestore)          *)
(***************************************************************************)
Handled == request.path # "none"

Restored == Handled /\ message.type = "success"

\* C5: version gate - on the import path and on the Drive path, a snapshot
\* whose version is not in the allow-list is rejected with a version error
\* and is neither merged into nor substituted for the local collections.
C5_VersionGate ==
    (/\ Handled /\ request.transport = "ok"
     /\ validateBackupData(request.doc)
     /\ request.doc.version \notin supportedVersions)
        => (message = Msg("error", "version") /\ appData = before)

\* C6: no partial restore - a restore either sets all six collections from
\* one validated, supported and reconciled snapshot, or (when the read, the
\* parse, the structural validation or the version check fails) leaves all
\* six collections as they were.
C6_NoPartialRestore ==
    Handled =>
        IF /\ request.transport = "ok"
           /\ validateBackupData(request.doc)
           /\ validateBackupVersion(request.doc)
        THEN \/ /\ Restored
                /\ appData = mergeBackupData(before, request.doc.data, request.mode).data
             \/ /\ mergeBackupData(before, request.doc.data, request.mode).threw
                /\ appData = before
        ELSE appData = before /\ message.type = "error"

\* what the claim calls a decodable document: version, timestamp and data are
\* there, every payload member is a sequence, nurseOnCalls may be missing
WellFormedAsClaimed(doc) ==
    /\ doc.kind = "object"
    /\ doc.version # "undefined" /\ doc.timestamp # "undefined" /\ doc.hasData
    /\ \A k \in Keys \ {"nurseOnCalls"} : IsArray(doc.data[k])
    /\ doc.data["nurseOnCalls"].tag \in {"array", "undefined"}

ImportAccepted == message.text \in {"version", "exception", "restored-import"}

\* C7: decode validation - importBackup accepts a parsed document exactly when
\* every payload member exists and is a sequence (nurseOnCalls may be missing
\* and then counts as empty); every other document is rejected as invalid.
C7_DecodeValidation ==
    (request.path = "import" /\ request.transport = "ok" /\ request.doc.kind # "garbage")
        => /\ ImportAccepted <=> WellFormedAsClaimed(request.doc)
           /\ ~ImportAccepted => message = Msg("error", "invalid")
           /\ (Restored /\ request.mode = "replace"
                 /\ request.doc.data["nurseOnCalls"] = Undefined)
                => appData["nurseOnCalls"] = Arr(<<>>)

(***************************************************************************)
(* Properties of the folder resolver (checked under SpecResolver)          *)
(***************************************************************************)
SeenFolders == {seen[i] : i \in 1..Len(seen)}

\* the ids of the most recently modified folders of a set
NewestIds(S) == {f.id : f \in {g \in S : \A h \in S : h.modifiedTime <= g.modifiedTime}}

SeenInSharedDrive == {f \in SeenFolders : f.driveId # ""}

\* C9: shared space first - when no fixed id is used and the search returns at
\* least one folder inside a shared drive, getOrCreateAppFolder returns the
\* most recently modified of the shared-drive folders, whatever the
\* modification times and sharing flags of the My Drive folders, and creates
\* nothing.
C9_SharedDrivePreferred ==
    (resolved.status # "none" /\ SeenInSharedDrive # {})
        => /\ resolved.status = "returned"
           /\ resolved.id \in NewestIds(SeenInSharedDrive)
           /\ resolved.created = ""

C9_Witness ==
    /\ resolved.status = "returned"
    /\ \E f \in SeenInSharedDrive, g \in SeenFolders :
          /\ g.driveId = "" /\ g.shared /\ g.modifiedTime > f.modifiedTime
          /\ resolved.id = f.id

StepsOf(r) == {r.steps[i] : i \in 1..Len(r.steps)}

\* C11: fixed folder id - when a fixed id is configured and its probe answers
\* ok, getOrCreateAppFolder returns that id after the probe alone (no search,
\* no creation); when the probe answers not-ok or throws, the call goes on
\* with the name search, and returns what the search selects if it finds
\* a folder.
C11_FixedId ==
    (resolved.status # "none" /\ fixedFolderId # "")
        => /\ asked.probe = "ok"
                => /\ resolved.status = "returned" /\ resolved.id = fixedFolderId
                   /\ resolved.steps = <<"probe">> /\ resolved.created = ""
           /\ asked.probe \in {"not-ok", "throws"}
                => /\ Len(resolved.steps) >= 2
                   /\ resolved.steps[1] = "probe" /\ resolved.steps[2] = "search"
                   /\ seen # <<>> => /\ resolved.status = "returned"
                                     /\ resolved.id = pickFolder(seen)

C11_Witness ==
    /\ fixedFolderId # "" /\ asked.probe = "ok" /\ folders # <<>>
    /\ resolved.status = "returned" /\ resolved.id = fixedFolderId

VerifiedInTarget == {verified[i] : i \in {j \in 1..Len(verified) : verified[j].driveId = TargetDrive}}

\* the case of C12: this call created a folder in the target shared drive and
\* the search after the delay lists another folder of that drive
RaceDetected ==
    /\ resolved.created # ""
    /\ findTargetSharedDrive(asked.drives) = TargetDrive
    /\ \E f \in VerifiedInTarget : f.id = resolved.created
    /\ \E f \in VerifiedInTarget : f.id # resolved.created

\* C12 as stated: in that case the call returns a folder it did not create
\* itself, and the duplication diagnostic is logged.
C12_OtherWinsAsStated ==
    RaceDetected => (resolved.id # resolved.created /\ resolved.warned)

\* C12 amended: in that case the call returns the most recently modified
\* folder of the target drive - another client's folder when the folder just
\* created is not among the newest, possibly its own otherwise - and the
\* duplication diagnostic is logged.
C12_LatestWins ==
    RaceDetected
        => /\ resolved.status = "returned"
           /\ resolved.warned
           /\ resolved.id \in NewestIds(VerifiedInTarget)
           /\ resolved.created \notin NewestIds(VerifiedInTarget)
                => resolved.id # resolved.created

C12_Witness ==
    /\ RaceDetected /\ resolved.warned
    /\ resolved.id # resolved.created
    /\ asked.rival = "later"

\* C19: failure policy - getOrCreateAppFolder throws only after the creation
\* request was made and failed, the search having returned nothing and the
\* probe of a configured fixed id having failed; after a failed probe the
\* search is made, and after a failed search the creation is attempted.
C19_FailurePolicy ==
    resolved.status # "none"
        => /\ resolved.status = "threw"
                => /\ "create" \in StepsOf(resolved) /\ ~asked.createOk
                   /\ "search" \in StepsOf(resolved) /\ seen = <<>>
                   /\ fixedFolderId # "" => asked.probe \in {"not-ok", "throws"}
           /\ asked.probe \in {"not-ok", "throws"} => "search" \in StepsOf(resolved)
           /\ (asked.probe # "ok" /\ ~asked.searchOk) => "create" \in StepsOf(resolved)
           /\ (asked.probe # "ok" /\ asked.createOk) => resolved.status = "returned"

C19_Witness ==
    /\ asked.probe = "throws" /\ ~asked.searchOk /\ asked.createOk
    /\ folders # <<>>
    /\ resolved.status = "returned" /\ resolved.created # ""

\* C20: creation location - a call whose search returns no folder and whose
\* creation request succeeds adds exactly one folder of its own, in the target
\* shared drive when the drives listing holds that drive and in My Drive
\* otherwise; a call whose search returns a folder, or whose creation request
\* fails, adds none of its own.
C20_CreationLocation ==
    [][LET added == {i \in 1..Len(folders') :
                        /\ folders'[i].ownedByMe
                        /\ folders'[i].id \notin IdsOf(folders)}
           found == asked'.drives.ok /\ TargetDrive \in asked'.drives.names
       IN  IF asked'.probe # "ok" /\ seen' = <<>> /\ asked'.createOk
           THEN /\ Cardinality(added) = 1
                /\ \A i \in added :
                      /\ folders'[i].id = resolved'.created
                      /\ folders'[i].driveId = IF found THEN TargetDrive ELSE ""
           ELSE added = {} /\ resolved'.created = ""]_vars

C20_Witness ==
    /\ resolved.created # "" /\ resolved.status = "returned"
    /\ asked.drives.ok /\ asked.drives.names = {TargetDrive, OtherDrive}
    /\ \E i \in 1..Len(folders) :
          folders[i].id = resolved.created /\ folders[i].driveId = TargetDrive

(***************************************************************************)
(* Properties of concurrent resolution (checked under SpecRace)            *)
(***************************************************************************)
Creators == {c \in Clients : racer[c].created # ""}

SameView == \A c \in Clients : Len(ViewOf(c, store)) = Len(store)

\* C13: convergence - with no fixed id, once two or more clients have each
\* found no folder and created one and nothing is created or changed any
\* more, the calls made afterwards by those clients, all listing the same
\* folders, return one and the same folder.
C13_Convergence ==
    (Cardinality(Creators) >= 2 /\ SameView)
        => \A c \in Creators, d \in Creators :
              (later[c] # "" /\ later[d] # "") => later[c] = later[d]

C13_Witness ==
    /\ SameView
    /\ \E c \in Creators, d \in Creators :
          /\ c # d /\ later[c] # "" /\ later[c] = later[d]
          /\ racer[c].result # racer[d].result

C13_WitnessMyDrive ==
    /\ SameView /\ \A i \in 1..Len(store) : store[i].driveId = ""
    /\ \E c \in Creators, d \in Creators : c # d /\ later[c] # "" /\ later[c] = later[d]

(***************************************************************************)
(* Properties of concurrent saves (checked under SpecSave)                 *)
(***************************************************************************)
SharedArtifacts == {i \in 1..Len(files) : files[i].name = SharedFileName}

\* C14: single shared artifact - after any interleaving of saveBackup calls
\* on one folder, the folder holds at most one artifact named
\* shared_schedule_data.json.
C14_SingleArtifact == Cardinality(SharedArtifacts) <= 1

\* C15: last writer wins - no save is rejected by the backend because of
\* another save, and the content of every artifact that was written is
\* exactly the whole body of the write request the backend applied to it
\* last.
C15_LastWriterWins ==
    /\ \A c \in Clients : saver[c].outcome # "rejected"
    /\ \A i \in 1..Len(files) : files[i].content = written[i]

\* both clients found the artifact, the write of one was applied between
\* the search and the write of the other, and the later write is the content
C15_Witness ==
    /\ Cardinality(SharedArtifacts) = 1
    /\ \A c \in Clients : saver[c].outcome = "saved" /\ saver[c].fileId = "a1"
    /\ \E c \in Clients, i \in SharedArtifacts :
          /\ files[i].id = "a1"
          /\ files[i].version >= saver[c].seenVersion + 2
          /\ files[i].content = saver[c].body

(***************************************************************************)
(* Properties of the service operations (checked under SpecService)        *)
(***************************************************************************)
\* C16: authentication fail-fast - an operation called without an access
\* token throws the sign-in error, and no request has reached the network.
C16_AuthFailFast ==
    (call.op # "none" /\ accessToken = "")
        => /\ outcome.status = "threw"
           /\ outcome.error = "auth" \/ outcome.cause = "auth"
           /\ outcome.requests = 0

ListedOf(c) == c.sharedList.files \o c.backupList.files

\* C17: accessibility filter - a listBackupFiles call that returns, returns
\* exactly the listed files whose metadata probe answered ok, each once and
\* newest first; a file whose probe answered 403 or 404 or threw is not in
\* the result; and the call returns whenever the folder was resolved and
\* both listings succeeded, whatever the probes answered.
C17_AccessibleOnly ==
    call.op = "listBackupFiles"
        => LET listed == ListedOf(call)
               okIds == {listed[i].id : i \in {j \in 1..Len(listed) :
                                                  call.probes[listed[j].id] = "ok"}}
           IN  /\ outcome.status = "returned"
                    => /\ IdsOf(outcome.result) = okIds
                       /\ Len(outcome.result) = Cardinality(okIds)
                       /\ \A i \in 1..Len(outcome.result) - 1 :
                             outcome.result[i].modifiedTime
                                 >= outcome.result[i + 1].modifiedTime
               /\ (call.folder.status = "returned"
                     /\ ResponseOk(call.sharedList.answer)
                     /\ ResponseOk(call.backupList.answer))
                    => outcome.status = "returned"

C17_Witness ==
    /\ call.op = "listBackupFiles" /\ outcome.status = "returned"
    /\ Len(ListedOf(call)) = 3
    /\ call.probes["s1"] = "403" /\ call.probes["b1"] = "throws"
    /\ call.probes["b2"] = "ok"
    /\ IdsOf(outcome.result) = {"b2"}

\* C18: delete failure classification - deleteBackup throws the not-found
\* error when the backend answers 404, the permission error when it answers
\* 403, the generic failure for any other error, and returns normally when
\* the backend answers with a success status.
C18_DeleteClassification ==
    (call.op = "deleteBackup" /\ accessToken # "")
        => /\ call.answer.status = 404
                => (outcome.status = "threw" /\ outcome.error = "not-found")
           /\ call.answer.status = 403
                => (outcome.status = "threw" /\ outcome.error = "permission-denied")
           /\ call.answer.status \in {0, 500}
                => (outcome.status = "threw" /\ outcome.error = "delete-failed")
           /\ ResponseOk(call.answer) => outcome.status = "returned"

(***************************************************************************)
(* Properties of the automatic backups (checked under SpecAutoBackup)      *)
(***************************************************************************)

History == getAutoBackups(autoBackups, TRUE)

LastOf(s, n) == IF Len(s) > n THEN SubSeq(s, Len(s) - n + 1, Len(s)) ELSE s

RecordedSnapshots == [i \in 1..Len(recorded) |-> recorded[i].snapshot]

SnapshotTime(snapshot) == getTime(NewDate(snapshot.timestamp))

HistoryBound ==
    /\ Len(History) <= MAX_AUTO_BACKUPS
    /\ History = LastOf(RecordedSnapshots, MAX_AUTO_BACKUPS)

Gated == autoCall.op = "checkAndCreateAutoBackup"

Due == ~autoCall.ran \/ autoCall.since >= AUTO_BACKUP_INTERVAL

\* C22 as stated: shouldCreateAutoBackup returns true exactly when no previous
\* run is recorded or at least AUTO_BACKUP_INTERVAL has elapsed since the last
\* one, and false otherwise.
C22_GateAsStated == Gated => (autoCall.should <=> Due)

\* C22 (amended): when localStorage can be read, shouldCreateAutoBackup
\* returns true exactly when no previous run is recorded or at least
\* AUTO_BACKUP_INTERVAL has elapsed since the last one; when reading
\* localStorage throws it returns false.
C22_Gate ==
    Gated => (autoCall.should <=> (autoCall.storage # "denied" /\ Due))

\* the gate opened exactly AUTO_BACKUP_INTERVAL after the previous run
C22_Witness ==
    /\ Gated /\ autoCall.should
    /\ autoCall.ran /\ autoCall.since = AUTO_BACKUP_INTERVAL

\* the gate stayed shut one millisecond before the interval had elapsed
C22_WitnessShut ==
    /\ Gated /\ ~autoCall.should /\ autoCall.storage = "ok"
    /\ autoCall.since = AUTO_BACKUP_INTERVAL - 1

Offset == Len(recorded) - Len(History)

Spaced ==
    \A i \in 1..(Len(History) - 1) :
        recorded[Offset + i + 1].via = "check"
            => SnapshotTime(History[i + 1]) - SnapshotTime(History[i]) >= AUTO_BACKUP_INTERVAL

TooEarly ==
    /\ autoCall'.n # autoCall.n
    /\ autoCall'.op = "checkAndCreateAutoBackup"
    /\ lastAutoBackup.tag # "null"
    /\ autoCall'.at - getTime(NewDate(lastAutoBackup)) < AUTO_BACKUP_INTERVAL

ExportCalled == exportCall'.n # exportCall.n /\ exportCall'.op = "exportBackup"

PickerSettled == pending = 1 /\ pending' = 0

ResetCalled == exportCall'.n # exportCall.n /\ exportCall'.op = "resetLocalBackupCount"

Delivered == Len(exported') = Len(exported) + 1

\* a confirmed or unprompted export is carried out, a declined one writes nothing
Advisory ==
    /\ ExportCalled /\ exportCall'.route = "declined"
          => exported' = exported /\ pending' = 0
    /\ ExportCalled /\ exportCall'.route # "declined" => Delivered \/ pending' = 1
    /\ PickerSettled => Delivered

\* C23 as stated: exportBackup asks for confirmation exactly when the stored
\* counter exceeds MAX_LOCAL_BACKUPS; a confirmed export is carried out and a
\* declined one writes no file.
C23_PromptAsStated ==
    /\ [](exportCall.op = "exportBackup"
            => (exportCall.prompted <=> exportCall.stored > MAX_LOCAL_BACKUPS))
    /\ [][Advisory]_vars

\* C23 (amended): exportBackup asks for confirmation exactly when the counter
\* can be read and is at or above MAX_LOCAL_BACKUPS; an export that is
\* confirmed or not prompted for is carried out (by the picker or by the
\* download link), and a declined one writes no file.
C23_Prompt ==
    /\ [](exportCall.op = "exportBackup"
            => /\ exportCall.prompted <=> /\ exportCall.storage = "ok"
                                          /\ exportCall.stored >= MAX_LOCAL_BACKUPS
               /\ exportCall.route = "declined"
                    <=> exportCall.prompted /\ ~exportCall.shouldContinue)
    /\ [][Advisory]_vars

\* the prompt was shown at a count of exactly MAX_LOCAL_BACKUPS, and confirmed
C23_Witness ==
    /\ exportCall.op = "exportBackup" /\ exportCall.prompted
    /\ exportCall.stored = MAX_LOCAL_BACKUPS
    /\ exportCall.shouldContinue /\ exportCall.route # "declined"

\* the prompt was declined
C23_WitnessDeclined ==
    /\ exportCall.op = "exportBackup" /\ exportCall.route = "declined"
    /\ exported = <<>>

\* C24 as stated: the counter goes up by exactly one for each export carried
\* out, is unchanged by a declined export, and is 0 after a reset.
C24_CounterAsStated ==
    [][/\ Delivered => parseInt(backupCount') = parseInt(backupCount) + 1
       /\ ExportCalled /\ exportCall'.route = "declined" => backupCount' = backupCount
       /\ ResetCalled => parseInt(backupCount') = 0]_vars

\* C24 (amended): when localStorage accepts the write the counter goes up by
\* exactly one for each export carried out and is 0 after a reset, and when
\* it throws the counter is left as it was; a declined export and an export
\* whose picker is still open leave it unchanged.
C24_Counter ==
    [][/\ Delivered /\ exportCall'.storage = "ok"
            => parseInt(backupCount') = parseInt(backupCount) + 1
       /\ ResetCalled /\ exportCall'.storage = "ok" => backupCount' = CountItem(0)
       /\ exportCall'.storage # "ok" => backupCount' = backupCount
       /\ ~Delivered /\ ~ResetCalled => backupCount' = backupCount]_vars

\* the picker was closed, the download link was used and the count went up
C24_Witness ==
    /\ exportCall.op = "saveWithFilePicker" /\ exportCall.route = "aborted"
    /\ exportCall.storage = "ok"
    /\ exported # <<>> /\ exported[Len(exported)] = "download-link"
    /\ parseInt(backupCount) = exportCall.stored + 1

(***************************************************************************)
(* Properties of the creation of the folder (checked under SpecResolver)   *)
(***************************************************************************)

CreateRequested == calls' # calls /\ "create" \in StepsOf(resolved')

\* C25 as stated: a creation request is made only when the backend holds no
\* folder of the name at the time of the search, and a search that errors
\* does not lead to a creation.
C25_CreationAsStated ==
    [][CreateRequested => (asked'.searchOk /\ folders = <<>>)]_vars

\* C25 (amended): a creation request is made only when the search of the call
\* returned no folder: either the search succeeded and the backend holds no
\* folder of the name, or a search request failed, which findAllAppFolders
\* turns into an empty result; a search that returns a folder is never
\* followed by a creation.
C25_CreationOnlyWhenEmpty ==
    [][/\ CreateRequested
            => /\ asked'.probe # "ok" /\ seen' = <<>>
               /\ asked'.searchOk => folders = <<>>
       /\ (calls' # calls /\ asked'.probe # "ok" /\ ~asked'.searchOk) => CreateRequested
       /\ (calls' # calls /\ seen' # <<>>)
            => /\ ~CreateRequested
               /\ folders' = folders]_vars

\* the search failed on a backend that holds folders, and one more was created
C25_Witness ==
    /\ asked.probe = "none" /\ ~asked.searchOk
    /\ resolved.created # "" /\ Len(folders) >= 2
    /\ \E i \in 1..Len(folders) : folders[i].id # resolved.created

CreationFailedInTarget ==
    /\ "create" \in StepsOf(resolved) /\ ~asked.createOk
    /\ findTargetSharedDrive(asked.drives) = TargetDrive

\* C26: creation failure fallback - when the creation request in the target
\* shared drive fails, the search is made again; the call returns the most
\* recently modified folder of that drive found by it if there is one, and
\* throws the creation error only when it finds none there.
C26_CreationFailureFallback ==
    CreationFailedInTarget
        => /\ resolved.steps[Len(resolved.steps)] = "search"
           /\ resolved.created = ""
           /\ VerifiedInTarget # {}
                => /\ resolved.status = "returned"
                   /\ resolved.id \in NewestIds(VerifiedInTarget)
           /\ VerifiedInTarget = {} => resolved.status = "threw"

\* the creation failed and the retry found the folder another client had made
C26_Witness ==
    /\ CreationFailedInTarget /\ asked.rival # "none"
    /\ resolved.status = "returned"
    /\ Cardinality(VerifiedInTarget) >= 2
    /\ resolved.id \in NewestIds(VerifiedInTarget)
    /\ NewestIds(VerifiedInTarget) # {f.id : f \in VerifiedInTarget}

\* the creation failed and the retry found nothing in the target drive
C26_WitnessThrows ==
    /\ CreationFailedInTarget /\ VerifiedInTarget = {} /\ verified # <<>>
    /\ resolved.status = "threw"

(***************************************************************************)
(* Uniqueness of ids under merge (checked under SpecMerge)                 *)
(***************************************************************************)

UniqueIds(s) == \A i, j \in 1..Len(s) : s[i].id = s[j].id => i = j

\* C29: merge keeps ids unique - when no id occurs twice within a local
\* sequence nor within the incoming sequence of the same key, no id occurs
\* twice within the merged sequence, and the ids of the merged sequence are
\* the ids of the local sequence together with those of the incoming one.
C29_MergeKeepsIdsUnique ==
    MergeReturned =>
        \A k \in Keys :
            LET c == current[k].items
                b == BackupArg(backup, k).items
                r == merged.data[k].items
            IN  (UniqueIds(c) /\ UniqueIds(b))
                    => /\ UniqueIds(r)
                       /\ IdsOf(r) = IdsOf(c) \cup IdsOf(b)

\* both sequences of a key are duplicate-free, share an id and the incoming
\* one brings a new id
C29_Witness ==
    /\ mpc = "once" /\ MergeReturned
    /\ \E k \in Keys :
         LET c == current[k].items
             b == BackupArg(backup, k).items
         IN  /\ UniqueIds(c) /\ UniqueIds(b)
             /\ IdsOf(c) \cap IdsOf(b) # {}
             /\ IdsOf(b) \ IdsOf(c) # {}
             /\ Len(merged.data[k].items) = Len(c) + 1

(***************************************************************************)
(* Properties of the auto-save hook (checked under SpecAutoSave)           *)
(***************************************************************************)

\* C27: auto-save mutual exclusion - at most one saveBackup call started by
\* the hook is in flight at any time, whatever the order of timer firings and
\* manualSave calls.
C27_MutualExclusion == Len(inFlight) <= 1

Triggered == saveCall'.n # saveCall.n

\* performAutoSave calls saveBackup only when auto-save is enabled, the client
\* is signed in and the collections differ from the remembered ones
WritesOnlyWhenChanged ==
    (Triggered /\ saveCall'.started)
        => /\ autoSaveEnabled /\ signedIn
           /\ getCurrentDataHash(collections) # lastDataRef
           /\ inFlight' = Append(inFlight, getCurrentDataHash(collections))

\* the remembered data changes only when a saveBackup call settles with
\* success, to the data that call carried
RememberedAfterSuccess ==
    lastDataRef' # lastDataRef
        => /\ Len(inFlight') < Len(inFlight)
           /\ lastSettled'.status = "success"
           /\ lastDataRef' = lastSettled'.hash

\* after a failed save, a trigger with the same data starts a save again
RetriesAfterFailure ==
    (/\ Triggered
     /\ lastSettled.status = "error"
     /\ lastSettled.hash = getCurrentDataHash(collections)
     /\ lastDataRef # getCurrentDataHash(collections)
     /\ autoSaveEnabled /\ signedIn /\ inFlight = <<>>)
        => saveCall'.started

\* C28: auto-save change tracking - performAutoSave writes only when auto-save
\* is enabled, the client is signed in and the collections differ from those
\* of the most recent successful save; the remembered data is updated only
\* after a successful save; and after a failed save the next trigger with the
\* same data attempts the save again.
C28_ChangeTracking ==
    [][WritesOnlyWhenChanged /\ RememberedAfterSuccess /\ RetriesAfterFailure]_vars

====
